---- MODULE Spec2Model ----
(***************************************************************************)
(* A model of the document-stream operators of databroker/broker.py:       *)
(*   event_map  (broker.py 986-1066)  the stream map operator              *)
(*   store_dec  (broker.py 907-983)   the external store interceptor       *)
(* Python dicts are functions with a finite domain of strings; the value   *)
(* None is the string "None"; a local that has not been assigned yet holds *)
(* Unbound.                                                                *)
(***************************************************************************)
EXTENDS Integers, Sequences, FiniteSets, TLC

\* ------------------------------------------------------------------ bounds
\* number of input documents one event_map generator is fed
MaxIn == 5
\* number of input documents one store_dec generator is fed
MaxDocs == 5

\* --------------------------------------------------------- python helpers
None == "None"
Unbound == [UNBOUND |-> TRUE]
EmptyDict == <<>>

\* dict.update(u): the keys of u override those of d
DictUpdate(d, u) == [k \in (DOMAIN d) \cup (DOMAIN u) |->
                        IF k \in DOMAIN u THEN u[k] ELSE d[k]]
\* d[k] = v
DictSet(d, k, v) == [x \in (DOMAIN d) \cup {k} |-> IF x = k THEN v ELSE d[x]]
\* d.pop(k, None)
DictPop(d, k) == [x \in (DOMAIN d) \ {k} |-> d[x]]

Last(s) == s[Len(s)]

\* A value that is either a python string or a document carries its python
\* type: [str |-> s] is the string s, [doc |-> d] is the document d.
PyStr(s) == [str |-> s]
PyDoc(d) == [doc |-> d]
isinstance_str(v) == "str" \in DOMAIN v

\* broker.py 42-60
doc_or_uid_to_uid(doc_or_uid) ==
    IF ~ isinstance_str(doc_or_uid) THEN doc_or_uid.doc.uid ELSE doc_or_uid.str

\* str(uuid.uuid4()): the n-th identifier drawn; identifiers are fresh
UuidPool == <<"u1", "u2", "u3", "u4", "u5", "u6", "u7", "u8", "u9", "u10",
              "u11", "u12", "u13", "u14", "u15", "u16">>
uuid4(n) == UuidPool[n]

\* ------------------------------------------------- event_map: its inputs
stream_name == "primary"
provenance == [op |-> "event_map"]

Raise == -1
Values == {1, 2}
\* the transforms f: one total, one that raises on the value 2
FTotal == [v \in Values |-> v + 10]
FPartial == [v \in Values |-> IF v = 2 THEN Raise ELSE v + 10]
Transforms == {FTotal, FPartial}

\* the data_keys argument: field -> schema update
DataKeysArgs == {[x |-> EmptyDict], [x |-> [shape |-> 2]]}

Schema == [dtype |-> "number", shape |-> 1]

MapStarts == {[uid |-> "s1"], [uid |-> "s2"]}
MapDescriptors ==
    {[uid |-> "d1", name |-> "primary", data_keys |-> [x |-> Schema]],
     [uid |-> "d2", name |-> "primary", data_keys |-> [x |-> Schema, y |-> Schema]],
     [uid |-> "d3", name |-> "baseline", data_keys |-> [x |-> Schema]]}
MapEvents ==
    {[uid |-> "e1", descriptor |-> PyStr("d1"), data |-> [x |-> 1]],
     [uid |-> "e2", descriptor |-> PyStr("d1"), data |-> [x |-> 2]],
     [uid |-> "e3", descriptor |-> PyDoc([uid |-> "d2"]), data |-> [x |-> 1, y |-> 2]],
     [uid |-> "e4", descriptor |-> PyStr("d2"), data |-> [x |-> 1]]}
MapStops == {[uid |-> "p1", run_start |-> "s1"]}

SourceUids == {"s1", "s2", "d1", "d2", "d3", "e1", "e2", "e3", "e4", "p1"}

VARIABLES
    \* event_map: arguments
    data_keys, f,
    \* event_map.inner: locals
    run_start_uid, descriptor_uid, new_data_keys, new_descriptor_uid,
    \* event_map.inner: position, pending exception, uuids drawn
    em_pc, em_exc, em_uuids,
    \* documents pulled from the stream, documents yielded, and the fields f
    \* was called on while processing the last event
    em_in, em_out, f_calls

em_vars == <<data_keys, f, run_start_uid, descriptor_uid, new_data_keys,
             new_descriptor_uid, em_pc, em_exc, em_uuids, em_in, em_out,
             f_calls>>

VARIABLES
    \* store_dec: the keys of the external_writers argument
    external_writers,
    \* store_dec.wrapped_f: the local `writers` (data key -> writer)
    writers,
    \* the writer objects: number instantiated, those open, those closed,
    \* and the number of reference ids issued by write()
    w_count, w_open, w_closed, datum_n,
    \* store_dec.wrapped_f: position and exception raised
    sd_pc, sd_exc,
    \* documents pulled from gen, documents handed to db.mds.insert,
    \* documents yielded
    sd_in, sd_inserted, sd_out

sd_vars == <<external_writers, writers, w_count, w_open, w_closed, datum_n,
             sd_pc, sd_exc, sd_in, sd_inserted, sd_out>>

VARIABLES
    \* the run starts held by the metadata store, oldest first
    mds_runs,
    \* Broker.__getitem__: the last key looked up and what search did with it
    s_key, s_result

se_vars == <<mds_runs, s_key, s_result>>

VARIABLES
    \* Broker.export: the headers argument and the locals headers, file_pairs
    ex_arg, ex_headers, file_pairs,
    \* position: the header and the descriptor the loops are at, the
    \* generator `events`, the resource uids still to visit, the locals
    \* new_res and datums
    ex_pc, ex_h, ex_d, ex_events, ex_res_uids, ex_new_res, ex_datums,
    \* the calls made on self.fs, db.mds and db.fs, in order, and what
    \* export returned
    ex_calls, ex_return

ex_vars == <<ex_arg, ex_headers, file_pairs, ex_pc, ex_h, ex_d, ex_events,
             ex_res_uids, ex_new_res, ex_datums, ex_calls, ex_return>>

VARIABLES
    \* header_io.inner: the local output_uids, position, and what it
    \* returned or raised
    output_uids, hio_pc, hio_result,
    \* the documents f(stream) has yielded, the runs db_out holds, and the
    \* keys looked up in db_out
    hio_yielded, hio_dst, hio_lookups

hio_vars == <<output_uids, hio_pc, hio_result, hio_yielded, hio_dst, hio_lookups>>

vars == <<em_vars, sd_vars, se_vars, ex_vars, hio_vars>>

\* the variables an event_map step, a store_dec step, a lookup, an export
\* step, a header_io step leaves alone
not_em_vars == <<sd_vars, se_vars, ex_vars, hio_vars>>
not_sd_vars == <<em_vars, se_vars, ex_vars, hio_vars>>
not_se_vars == <<em_vars, sd_vars, ex_vars, hio_vars>>
not_ex_vars == <<em_vars, sd_vars, se_vars, hio_vars>>
not_hio_vars == <<em_vars, sd_vars, se_vars, ex_vars>>

\* the store_dec generator is not running
SdIdle ==
    /\ external_writers = {}
    /\ writers = Unbound
    /\ w_count = 0
    /\ w_open = {}
    /\ w_closed = {}
    /\ datum_n = 0
    /\ sd_pc = "idle"
    /\ sd_exc = None
    /\ sd_in = <<>>
    /\ sd_inserted = <<>>
    /\ sd_out = <<>>

\* no key has been looked up
NoKey == [type |-> "none"]
NoResult == [status |-> "none"]
SeIdle ==
    /\ mds_runs = <<>>
    /\ s_key = NoKey
    /\ s_result = NoResult

\* export has not been called
ExIdle ==
    /\ ex_arg = NoKey
    /\ ex_headers = <<>>
    /\ file_pairs = <<>>
    /\ ex_pc = "idle"
    /\ ex_h = 0
    /\ ex_d = 0
    /\ ex_events = <<>>
    /\ ex_res_uids = {}
    /\ ex_new_res = None
    /\ ex_datums = <<>>
    /\ ex_calls = <<>>
    /\ ex_return = None

\* header_io has not been called
HioIdle ==
    /\ output_uids = <<>>
    /\ hio_pc = "idle"
    /\ hio_result = NoResult
    /\ hio_yielded = <<>>
    /\ hio_dst = <<>>
    /\ hio_lookups = <<>>

\* time.time(): a logical clock, the number of documents pulled so far
time(in) == Len(in)

\* broker.py 1003-1006
InitEventMap ==
    /\ data_keys \in DataKeysArgs
    /\ f \in Transforms
    /\ run_start_uid = None
    /\ descriptor_uid = None
    /\ new_data_keys = Unbound
    /\ new_descriptor_uid = Unbound
    /\ em_pc = "ready"
    /\ em_exc = None
    /\ em_uuids = 0
    /\ em_in = <<>>
    /\ em_out = <<>>
    /\ f_calls = {}
    /\ SdIdle
    /\ SeIdle
    /\ ExIdle
    /\ HioIdle

\* `for name, doc in stream` pulls the next document (broker.py 1007)
Pull(name, doc) ==
    /\ em_pc = "ready"
    /\ Len(em_in) < MaxIn
    /\ em_in' = Append(em_in, [name |-> name, doc |-> doc])
    /\ UNCHANGED not_em_vars

\* the document is handed over twice
YieldTwice(name, doc) ==
    em_out' = em_out \o <<[name |-> name, doc |-> doc], [name |-> name, doc |-> doc]>>

\* broker.py 1014, 1030, 1046, 1052, 1064: the generator is suspended at the
\* yield until the consumer asks for the next document
Yield(name, doc) == em_out' = Append(em_out, [name |-> name, doc |-> doc])

\* the derived start taking the uid of the source start
EmStartSourceUid(doc) ==
    /\ Pull("start", doc)
    /\ run_start_uid' = doc.uid
    /\ Yield("start", [uid |-> run_start_uid',
                       time |-> time(em_in'),
                       parents |-> <<doc.uid>>,
                       provenance |-> provenance])
    /\ UNCHANGED <<data_keys, f, descriptor_uid, new_data_keys,
                   new_descriptor_uid, em_pc, em_exc, em_uuids, f_calls>>

\* broker.py 1008-1014
EmStart(doc) ==
    /\ Pull("start", doc)
    /\ run_start_uid' = uuid4(em_uuids + 1)
    /\ em_uuids' = em_uuids + 1
    /\ Yield("start", [uid |-> run_start_uid',
                       time |-> time(em_in'),
                       parents |-> <<doc.uid>>,
                       provenance |-> provenance])
    /\ UNCHANGED <<data_keys, f, descriptor_uid, new_data_keys,
                   new_descriptor_uid, em_pc, em_exc, f_calls>>

\* broker.py 1021-1023: a shallow copy of the source data_keys, each schema
\* updated with itself
MergedDataKeys(doc) ==
    LET copy == doc.data_keys
    IN  [k \in DOMAIN copy |-> DictUpdate(copy[k], copy[k])]

\* the descriptor branch without its `run_start_uid is None` check
EmDescriptorUnchecked(doc) ==
    /\ doc.name = stream_name
    /\ Pull("descriptor", doc)
    /\ descriptor_uid' = doc_or_uid_to_uid(PyDoc(doc))
    /\ new_data_keys' = MergedDataKeys(doc)
    /\ new_descriptor_uid' = uuid4(em_uuids + 1)
    /\ em_uuids' = em_uuids + 1
    /\ Yield("descriptor", [uid |-> new_descriptor_uid',
                            time |-> time(em_in'),
                            run_start |-> run_start_uid,
                            data_keys |-> new_data_keys',
                            name |-> stream_name])
    /\ UNCHANGED <<data_keys, f, run_start_uid, f_calls, em_pc, em_exc>>

\* broker.py 1016-1030
EmDescriptor(doc) ==
    /\ doc.name = stream_name
    /\ Pull("descriptor", doc)
    /\ IF run_start_uid = None
       THEN /\ em_pc' = "raised"
            /\ em_exc' = "RuntimeError"
            /\ UNCHANGED <<descriptor_uid, new_data_keys, new_descriptor_uid,
                           em_uuids, em_out>>
       ELSE /\ descriptor_uid' = doc_or_uid_to_uid(PyDoc(doc))
            /\ new_data_keys' = MergedDataKeys(doc)
            /\ new_descriptor_uid' = uuid4(em_uuids + 1)
            /\ em_uuids' = em_uuids + 1
            /\ Yield("descriptor", [uid |-> new_descriptor_uid',
                                    time |-> time(em_in'),
                                    run_start |-> run_start_uid,
                                    data_keys |-> new_data_keys',
                                    name |-> stream_name])
            /\ UNCHANGED <<em_pc, em_exc>>
    /\ UNCHANGED <<data_keys, f, run_start_uid, f_calls>>

\* broker.py 1016, 1032, 1055: a descriptor of another stream matches no
\* branch and the loop pulls the next document
EmDescriptorOther(doc) ==
    /\ doc.name # stream_name
    /\ Pull("descriptor", doc)
    /\ UNCHANGED <<data_keys, f, run_start_uid, descriptor_uid, new_data_keys,
                   new_descriptor_uid, em_pc, em_exc, em_uuids, em_out, f_calls>>

\* the orders in which a dict with these keys may be iterated
KeyOrders(keys) ==
    {o \in [1..Cardinality(keys) -> keys] : \A k \in keys : \E i \in DOMAIN o : o[i] = k}

\* broker.py 1043-1045 on the keys in iteration order o: the index of the
\* first key whose lookup (KeyError) or transform raises, 0 if none does
KeyFails(doc, k) == k \notin DOMAIN doc.data \/ f[doc.data[k]] = Raise
FirstFailure(doc, o) ==
    IF \E i \in DOMAIN o : KeyFails(doc, o[i])
    THEN CHOOSE i \in DOMAIN o : /\ KeyFails(doc, o[i])
                                 /\ \A j \in 1..(i - 1) : ~ KeyFails(doc, o[j])
    ELSE 0

\* a transform that is never applied: the event is copied with its source data
NewEventUnmapped(doc, uid) ==
    DictSet(DictSet(doc, "uid", uid), "descriptor", PyStr(new_descriptor_uid))

\* broker.py 1037-1045
NewEvent(doc, uid) ==
    LET new_event == DictSet(DictSet(doc, "uid", uid),
                             "descriptor", PyStr(new_descriptor_uid))
        data == [k \in (DOMAIN doc.data) \cup (DOMAIN new_data_keys) |->
                    IF k \in DOMAIN new_data_keys
                    THEN f[doc.data[k]] ELSE doc.data[k]]
    IN  DictSet(new_event, "data", data)

\* the stop of the success branch pasted into the except branch
FailureStopAsSuccess(uid, t) ==
    [uid |-> uid, time |-> t, run_start |-> run_start_uid,
     exit_status |-> "success"]

\* broker.py 1048-1051
FailureStop(uid, t) ==
    [uid |-> uid, time |-> t, run_start |-> run_start_uid,
     exit_status |-> "failure"]

\* broker.py 1032-1053
EmEvent(doc) ==
    /\ doc_or_uid_to_uid(doc.descriptor) = descriptor_uid
    /\ Pull("event", doc)
    /\ IF run_start_uid = None
       THEN /\ em_pc' = "raised"
            /\ em_exc' = "RuntimeError"
            /\ UNCHANGED <<em_uuids, em_out, f_calls>>
       ELSE \E o \in KeyOrders(DOMAIN new_data_keys) :
              LET bad == FirstFailure(doc, o) IN
              IF bad = 0
              THEN /\ em_uuids' = em_uuids + 1
                   /\ Yield("event", NewEvent(doc, uuid4(em_uuids + 1)))
                   /\ f_calls' = DOMAIN new_data_keys
                   /\ UNCHANGED <<em_pc, em_exc>>
              ELSE \* except Exception: yield a failure stop, suspended
                   \* there until the consumer pulls again
                   /\ em_uuids' = em_uuids + 2
                   /\ Yield("stop", FailureStop(uuid4(em_uuids + 2),
                                                time(em_in')))
                   /\ f_calls' = {o[i] : i \in {j \in 1..bad :
                                        o[j] \in DOMAIN doc.data}}
                   /\ em_pc' = "failstop"
                   /\ em_exc' = IF o[bad] \in DOMAIN doc.data
                                THEN "TransformError" ELSE "KeyError"
    /\ UNCHANGED <<data_keys, f, run_start_uid, descriptor_uid, new_data_keys,
                   new_descriptor_uid>>

\* the exception swallowed after the failure stop: the loop goes on
EmReraiseContinues ==
    /\ em_pc = "failstop"
    /\ em_pc' = "ready"
    /\ UNCHANGED not_em_vars
    /\ UNCHANGED <<data_keys, f, run_start_uid, descriptor_uid, new_data_keys,
                   new_descriptor_uid, em_exc, em_uuids, em_in, em_out, f_calls>>

\* broker.py 1053: the consumer pulls after the failure stop, `raise`
EmReraise ==
    /\ em_pc = "failstop"
    /\ em_pc' = "raised"
    /\ UNCHANGED not_em_vars
    /\ UNCHANGED <<data_keys, f, run_start_uid, descriptor_uid, new_data_keys,
                   new_descriptor_uid, em_exc, em_uuids, em_in, em_out, f_calls>>

\* an event of another descriptor passed through instead of dropped
EmEventOtherPassedThrough(doc) ==
    /\ doc_or_uid_to_uid(doc.descriptor) # descriptor_uid
    /\ Pull("event", doc)
    /\ Yield("event", doc)
    /\ UNCHANGED <<data_keys, f, run_start_uid, descriptor_uid, new_data_keys,
                   new_descriptor_uid, em_pc, em_exc, em_uuids, f_calls>>

\* broker.py 1032-1033, 1055: an event of another descriptor matches no
\* branch and the loop pulls the next document
EmEventOther(doc) ==
    /\ doc_or_uid_to_uid(doc.descriptor) # descriptor_uid
    /\ Pull("event", doc)
    /\ UNCHANGED <<data_keys, f, run_start_uid, descriptor_uid, new_data_keys,
                   new_descriptor_uid, em_pc, em_exc, em_uuids, em_out, f_calls>>

\* the stop branch without `run_start_uid = None` (broker.py 1063)
EmStopKeepsRun(doc) ==
    /\ Pull("stop", doc)
    /\ IF run_start_uid = None
       THEN /\ em_pc' = "raised"
            /\ em_exc' = "RuntimeError"
            /\ UNCHANGED <<run_start_uid, descriptor_uid, em_uuids, em_out>>
       ELSE /\ em_uuids' = em_uuids + 1
            /\ descriptor_uid' = None
            /\ UNCHANGED run_start_uid
            /\ Yield("stop", [uid |-> uuid4(em_uuids + 1),
                              time |-> time(em_in'),
                              run_start |-> run_start_uid,
                              exit_status |-> "success"])
            /\ UNCHANGED <<em_pc, em_exc>>
    /\ UNCHANGED <<data_keys, f, new_data_keys, new_descriptor_uid, f_calls>>

\* broker.py 1055-1064
EmStop(doc) ==
    /\ Pull("stop", doc)
    /\ IF run_start_uid = None
       THEN /\ em_pc' = "raised"
            /\ em_exc' = "RuntimeError"
            /\ UNCHANGED <<run_start_uid, descriptor_uid, em_uuids, em_out>>
       ELSE /\ em_uuids' = em_uuids + 1
            /\ descriptor_uid' = None
            /\ run_start_uid' = None
            /\ Yield("stop", [uid |-> uuid4(em_uuids + 1),
                              time |-> time(em_in'),
                              run_start |-> run_start_uid,
                              exit_status |-> "success"])
            /\ UNCHANGED <<em_pc, em_exc>>
    /\ UNCHANGED <<data_keys, f, new_data_keys, new_descriptor_uid, f_calls>>

\* broker.py 1007: the stream is exhausted and the generator returns
EmExhausted ==
    /\ em_pc = "ready"
    /\ em_pc' = "done"
    /\ UNCHANGED not_em_vars
    /\ UNCHANGED <<data_keys, f, run_start_uid, descriptor_uid, new_data_keys,
                   new_descriptor_uid, em_exc, em_uuids, em_in, em_out, f_calls>>

NextEventMap ==
    \/ \E doc \in MapStarts : EmStart(doc)
    \/ \E doc \in MapDescriptors : EmDescriptor(doc)
    \/ \E doc \in MapDescriptors : EmDescriptorOther(doc)
    \/ \E doc \in MapEvents : EmEvent(doc)
    \/ \E doc \in MapEvents : EmEventOther(doc)
    \/ \E doc \in MapStops : EmStop(doc)
    \/ EmReraise
    \/ EmExhausted

SpecEventMap == InitEventMap /\ [][NextEventMap]_vars

\* ------------------------------------------------- store_dec: its inputs
\* the event_map generator is not running
EmIdle ==
    /\ data_keys = EmptyDict
    /\ f = FTotal
    /\ run_start_uid = None
    /\ descriptor_uid = None
    /\ new_data_keys = Unbound
    /\ new_descriptor_uid = Unbound
    /\ em_pc = "idle"
    /\ em_exc = None
    /\ em_uuids = 0
    /\ em_in = <<>>
    /\ em_out = <<>>
    /\ f_calls = {}

\* the external_writers argument (its keys; the values are writer classes)
ExternalWritersArgs == {{"img"}, {"img", "x"}}

SdStarts == {[uid |-> "s1", time |-> 0]}
SdDescriptors ==
    {[uid |-> "d1", name |-> "primary", run_start |-> "s1",
      data_keys |-> [img |-> [dtype |-> "array"], x |-> [dtype |-> "number"]]],
     [uid |-> "d2", name |-> "baseline", run_start |-> "s1",
      data_keys |-> [x |-> [dtype |-> "number"]]]}
SdEvents ==
    {[uid |-> "e1", descriptor |-> "d1", data |-> [img |-> "A", x |-> "B"]],
     [uid |-> "e2", descriptor |-> "d2", data |-> [x |-> "B"],
      filled |-> [x |-> TRUE], _name |-> "Event"]}
SdStops == {[uid |-> "p1", run_start |-> "s1", exit_status |-> "success"]}

\* the reference ids (datum ids) issued by the writers, in order of issue
DatumPool == <<"datum1", "datum2", "datum3", "datum4", "datum5", "datum6",
               "datum7", "datum8", "datum9", "datum10", "datum11", "datum12",
               "datum13", "datum14">>

\* ---------------------------------------------- python objects of a step
\* A document is a dict object whose 'data_keys' and 'data' values are dict
\* objects of their own, and each value of 'data_keys' is one more dict
\* object.  A heap maps the address of an object to its contents; a dict
\* holds a nested dict as Ref(address), so two dicts can share one.
Ref(a) == [ref |-> a]
DocAddr == <<"doc">>
FsDocAddr == <<"fs_doc">>
FsDataAddr == <<"fs_doc", "data">>
NestedKeys == {"data_keys", "data"}

\* the objects of the document pulled from gen
Load(doc) ==
    LET nested == (DOMAIN doc) \cap NestedKeys
        schemas == IF "data_keys" \in DOMAIN doc
                   THEN {<<"doc", "data_keys", k>> : k \in DOMAIN doc.data_keys}
                   ELSE {}
        addrs == {DocAddr} \cup {<<"doc", k>> : k \in nested} \cup schemas
    IN  [a \in addrs |->
            IF a = DocAddr
            THEN [k \in DOMAIN doc |->
                     IF k \in NestedKeys THEN Ref(<<"doc", k>>) ELSE doc[k]]
            ELSE IF a = <<"doc", "data_keys">>
            THEN [k \in DOMAIN doc.data_keys |-> Ref(<<"doc", "data_keys", k>>)]
            ELSE IF a = <<"doc", "data">>
            THEN doc.data
            ELSE doc.data_keys[a[3]]]

\* the document that the dict at address a is, nested dicts followed
Value(h, a) ==
    LET top == h[a]
    IN  [k \in DOMAIN top |->
            IF k = "data_keys"
            THEN [x \in DOMAIN h[top[k].ref] |-> h[h[top[k].ref][x].ref]]
            ELSE IF k = "data"
            THEN h[top[k].ref]
            ELSE top[k]]

\* to = dict(h[from]): a new dict object with the same values (shallow)
DictCopy(h, from, to) == (to :> h[from]) @@ h

\* broker.py 936
CopyDoc(h) == DictCopy(h, DocAddr, FsDocAddr)

\* broker.py 945-949
MarkExternal(h) ==
    LET fs_data_keys == h[h[FsDocAddr].data_keys.ref]
        updated == {fs_data_keys[data_name].ref :
                       data_name \in external_writers \cap DOMAIN fs_data_keys}
    IN  [a \in DOMAIN h |->
            IF a \in updated
            THEN DictUpdate(h[a], [external |-> "FILESTORE:"])
            ELSE h[a]]

\* the event branch without its copy of fs_doc['data']
CopyDataAliased(h) == h

\* broker.py 954
CopyData(h) ==
    LET h1 == DictCopy(h, h[FsDocAddr].data.ref, FsDataAddr)
    IN  [h1 EXCEPT ![FsDocAddr] = DictSet(@, "data", Ref(FsDataAddr))]

\* the keys the loop of broker.py 959-963 writes, given the event's data
WrittenKeys(doc) == (DOMAIN writers) \cap (DOMAIN doc.data)

\* broker.py 959-963: the first n writes in iteration order o, the i-th of
\* them returning the reference id DatumPool[datum_n + i]
Written(h, o, n) ==
    LET data_addr == h[FsDocAddr].data.ref
    IN  [h EXCEPT ![data_addr] =
            [k \in DOMAIN @ |->
                IF \E i \in 1..n : o[i] = k
                THEN DatumPool[datum_n + (CHOOSE i \in 1..n : o[i] = k)]
                ELSE @[k]]]

\* broker.py 965-966
AddFilled(h) ==
    [h EXCEPT ![DocAddr] =
        DictSet(@, "filled", [k \in external_writers |-> FALSE])]

\* only 'filled' is popped from fs_doc
PopFilledOnly(h) ==
    [h EXCEPT ![FsDocAddr] = DictPop(@, "filled")]

\* broker.py 974-975
PopPrivate(h) ==
    [h EXCEPT ![FsDocAddr] = DictPop(DictPop(@, "filled"), "_name")]

\* ---------------------------------------------------- store_dec: actions
\* broker.py 927-932
InitStoreDec ==
    /\ EmIdle
    /\ SeIdle
    /\ ExIdle
    /\ HioIdle
    /\ external_writers \in ExternalWritersArgs
    /\ writers = Unbound
    /\ w_count = 0
    /\ w_open = {}
    /\ w_closed = {}
    /\ datum_n = 0
    /\ sd_pc = "ready"
    /\ sd_exc = None
    /\ sd_in = <<>>
    /\ sd_inserted = <<>>
    /\ sd_out = <<>>

\* `for name, doc in gen` pulls the next document (broker.py 933)
SdPull(name, doc) ==
    /\ sd_pc = "ready"
    /\ Len(sd_in) < MaxDocs
    /\ sd_in' = Append(sd_in, [name |-> name, doc |-> doc])
    /\ UNCHANGED <<not_sd_vars, external_writers>>

\* broker.py 973-979 on the objects h of this step
InsertAndYield(name, h) ==
    LET h1 == PopPrivate(h)
    IN  /\ sd_inserted' = Append(sd_inserted,
                                 [name |-> name, doc |-> Value(h1, FsDocAddr)])
        /\ sd_out' = Append(sd_out, [name |-> name, doc |-> Value(h1, DocAddr)])

\* broker.py 938-941, 973-979
SdStart(doc) ==
    /\ SdPull("start", doc)
    /\ writers' = [data_key \in external_writers |-> <<data_key, w_count + 1>>]
    /\ w_count' = w_count + 1
    /\ w_open' = w_open \cup {writers'[data_key] : data_key \in external_writers}
    /\ InsertAndYield("start", CopyDoc(Load(doc)))
    /\ UNCHANGED <<w_closed, datum_n, sd_pc, sd_exc>>

\* broker.py 943-949, 973-979
SdDescriptor(doc) ==
    /\ SdPull("descriptor", doc)
    /\ InsertAndYield("descriptor", MarkExternal(CopyDoc(Load(doc))))
    /\ UNCHANGED <<writers, w_count, w_open, w_closed, datum_n, sd_pc, sd_exc>>

\* broker.py 951-966, 973-979
SdEvent(doc) ==
    /\ SdPull("event", doc)
    /\ IF writers = Unbound
       THEN \* `writers` is read before any start has assigned it
            /\ sd_pc' = "raised"
            /\ sd_exc' = "UnboundLocalError"
            /\ UNCHANGED <<datum_n, sd_inserted, sd_out>>
       ELSE \E o \in KeyOrders(WrittenKeys(doc)) :
               /\ datum_n' = datum_n + Len(o)
               /\ InsertAndYield("event",
                     AddFilled(Written(CopyData(CopyDoc(Load(doc))), o, Len(o))))
               /\ UNCHANGED <<sd_pc, sd_exc>>
    /\ UNCHANGED <<writers, w_count, w_open, w_closed>>

\* a write failure handled by closing the writers of the run (try/finally)
SdEventWriteRaisesAndCloses(doc) ==
    /\ SdPull("event", doc)
    /\ writers # Unbound
    /\ \E o \in KeyOrders(WrittenKeys(doc)) : \E n \in DOMAIN o :
          datum_n' = datum_n + (n - 1)
    /\ sd_pc' = "raised"
    /\ sd_exc' = "WriterError"
    /\ w_open' = w_open \ {writers[k] : k \in DOMAIN writers}
    /\ w_closed' = w_closed \cup {writers[k] : k \in DOMAIN writers}
    /\ writers' = EmptyDict
    /\ UNCHANGED <<w_count, sd_inserted, sd_out>>

\* broker.py 959-963: writer.write raises on the n-th write of the event
SdEventWriteRaises(doc) ==
    /\ SdPull("event", doc)
    /\ writers # Unbound
    /\ \E o \in KeyOrders(WrittenKeys(doc)) : \E n \in DOMAIN o :
          datum_n' = datum_n + (n - 1)
    /\ sd_pc' = "raised"
    /\ sd_exc' = "WriterError"
    /\ UNCHANGED <<writers, w_count, w_open, w_closed, sd_inserted, sd_out>>

\* broker.py 968-971, 973-979
SdStop(doc) ==
    /\ SdPull("stop", doc)
    /\ IF writers = Unbound
       THEN /\ sd_pc' = "raised"
            /\ sd_exc' = "UnboundLocalError"
            /\ UNCHANGED <<writers, w_open, w_closed, sd_inserted, sd_out>>
       ELSE /\ w_open' = w_open \ {writers[k] : k \in DOMAIN writers}
            /\ w_closed' = w_closed \cup {writers[k] : k \in DOMAIN writers}
            /\ writers' = EmptyDict
            /\ InsertAndYield("stop", CopyDoc(Load(doc)))
            /\ UNCHANGED <<sd_pc, sd_exc>>
    /\ UNCHANGED <<w_count, datum_n>>

\* broker.py 933: gen is exhausted and the generator returns
SdExhausted ==
    /\ sd_pc = "ready"
    /\ sd_pc' = "done"
    /\ UNCHANGED <<not_sd_vars, external_writers, writers, w_count, w_open,
                   w_closed, datum_n, sd_exc, sd_in, sd_inserted, sd_out>>

NextStoreDec ==
    \/ \E doc \in SdStarts : SdStart(doc)
    \/ \E doc \in SdDescriptors : SdDescriptor(doc)
    \/ \E doc \in SdEvents : SdEvent(doc)
    \/ \E doc \in SdEvents : SdEventWriteRaises(doc)
    \/ \E doc \in SdStops : SdStop(doc)
    \/ SdExhausted

SpecStoreDec == InitStoreDec /\ [][NextStoreDec]_vars

\* ------------------------------------------------------ search: its inputs
\* number of runs in the metadata store
MaxRuns == 3

\* len(key) == 36 (broker.py 239)
UidLen == 36

\* a python string is the sequence of its characters
Pad(prefix) == prefix \o [i \in 1..(UidLen - Len(prefix)) |-> "0"]
\* the uid of the i-th run inserted
RunUids == <<Pad(<<"a", "b">>), Pad(<<"a", "c">>), Pad(<<"b", "a">>), Pad(<<"c">>)>>
ScanIds == {1, 2}

\* an optional integer: <<>> is None, <<n>> is n
NoneInt == <<>>
Some(n) == <<n>>

IntKey(n) == [type |-> "int", n |-> n]
SliceKey(start, stop, step) ==
    [type |-> "slice", start |-> start, stop |-> stop, step |-> step]
StrKey(str) == [type |-> "str", s |-> str]
ListKey(items) == [type |-> "list", items |-> items]
TupleKey(items) == [type |-> "tuple", items |-> items]
\* a set, its items in the order iterating over it gives them
SetKey(items) == [type |-> "set", items |-> items]
\* a key of a type search has no branch for
OtherKey(type) == [type |-> type]

IntKeys == {IntKey(n) : n \in (0 - (MaxRuns + 1))..2}
SliceKeys ==
    LET SliceBounds == {NoneInt} \cup {Some(n) : n \in (0 - MaxRuns)..1}
        SliceSteps == {NoneInt} \cup {Some(n) : n \in (0 - 1)..2}
    IN  {SliceKey(a, b, c) : a \in SliceBounds, b \in SliceBounds, c \in SliceSteps}
StrKeys == {StrKey(RunUids[1]), StrKey(<<"a">>), StrKey(<<"a", "b">>),
            StrKey(<<"b">>), StrKey(<<"z">>), StrKey(Pad(<<"z">>))}
OtherKeys == {OtherKey("float"), OtherKey("NoneType"), OtherKey("dict")}
CollectionKeys ==
    {ListKey(<<>>), ListKey(<<IntKey(1), IntKey(0 - 1)>>),
     ListKey(<<IntKey(0 - 1), IntKey(1)>>),
     TupleKey(<<StrKey(<<"a", "b">>), IntKey(0 - 2)>>),
     ListKey(<<IntKey(0 - 1), ListKey(<<IntKey(0 - 2), IntKey(2)>>)>>),
     SetKey(<<IntKey(2), StrKey(<<"c">>)>>), SetKey(<<StrKey(<<"c">>), IntKey(2)>>),
     ListKey(<<IntKey(0 - 1), OtherKey("float"), IntKey(0 - 3)>>)}
Keys == IntKeys \cup SliceKeys \cup StrKeys \cup OtherKeys \cup CollectionKeys

\* ------------------------------------------- the metadata store queried
Reverse(seq) == [i \in 1..Len(seq) |-> seq[Len(seq) + 1 - i]]

\* every run start, most recent first, whatever n
find_last_unlimited(mds, n) == Reverse(mds)

\* mds.find_last(n): the n most recent run starts, most recent first
find_last(mds, n) ==
    LET recent == Reverse(mds)
    IN  SubSeq(recent, 1, IF n < Len(recent) THEN n ELSE Len(recent))

\* mds.find_run_starts(scan_id=n): the matches, most recent first
find_run_starts_scan_id(mds, n) ==
    LET Match(rs) == rs.scan_id = n IN SelectSeq(Reverse(mds), Match)

\* mds.find_run_starts(uid=key)
find_run_starts_uid(mds, key) ==
    LET Match(rs) == rs.uid = key IN SelectSeq(Reverse(mds), Match)

\* the regular expression key + '.*' finds a match in str: key occurs in it
RegexSearch(key, str) ==
    \E i \in 0..(Len(str) - Len(key)) :
        \A j \in 1..Len(key) : str[i + j] = key[j]

\* mds.find_run_starts(uid={'$regex': key + '.*'})
find_run_starts_regex(mds, key) ==
    LET Match(rs) == RegexSearch(key, rs.uid) IN SelectSeq(Reverse(mds), Match)

\* Header.from_run_start(mds, run_start)
HeaderFromRunStart(rs) == [start |-> rs]

\* the queries a lookup sent to the metadata store
QLast(n) == [q |-> "find_last", n |-> n]
QScanId(n) == [q |-> "find_run_starts", scan_id |-> n]
QUid(key) == [q |-> "find_run_starts", uid |-> key]
QRegex(key) == [q |-> "find_run_starts", regex |-> key]

Returns(value, queries) == [status |-> "ok", value |-> value, queries |-> queries]
\* an exception: its type, what its message is about, the number the
\* message states if it states one, and the queries sent before it
Raises(exc, about, queries) ==
    [status |-> "raise", exc |-> exc, about |-> about, count |-> NoneInt,
     queries |-> queries]
RaisesCount(exc, about, n, queries) ==
    [status |-> "raise", exc |-> exc, about |-> about, count |-> Some(n),
     queries |-> queries]

\* ------------------------------------------------------------ search
\* list[first::step] for a python list, first and step optional integers
\* and step not 0
PySliceFrom(lst, first, step) ==
    LET n == Len(lst)
        st == IF step = NoneInt THEN 1 ELSE step[1]
        lo == IF st < 0 THEN 0 - 1 ELSE 0
        hi == IF st < 0 THEN n - 1 ELSE n
        a0 == IF first = NoneInt
              THEN (IF st < 0 THEN hi ELSE lo)
              ELSE IF first[1] < 0
                   THEN (IF first[1] + n < lo THEN lo ELSE first[1] + n)
                   ELSE (IF first[1] > hi THEN hi ELSE first[1])
        \* the 0-based indices a0, a0 + st, ... inside the list
        count == IF st > 0
                 THEN (IF a0 >= n THEN 0 ELSE ((n - 1 - a0) \div st) + 1)
                 ELSE (IF a0 < 0 THEN 0 ELSE (a0 \div (0 - st)) + 1)
    IN  [i \in 1..count |-> lst[a0 + (i - 1) * st + 1]]

\* the slice branch without its check of key.stop
SearchSliceNoStopCheck(key, mds) ==
    IF key.start # NoneInt /\ key.start[1] > 0 - 1
    THEN Raises("ValueError", "slice.start", <<>>)
    ELSE IF key.start = NoneInt
    THEN Raises("ValueError", "slice.start is None", <<>>)
    ELSE LET start == 0 - key.start[1]
             stop == IF key.stop # NoneInt THEN Some(0 - key.stop[1]) ELSE NoneInt
             found == find_last(mds, start)
         IN  IF key.step = Some(0)
             THEN Raises("ValueError", "slice step", <<QLast(start)>>)
             ELSE Returns([i \in 1..Len(PySliceFrom(found, stop, key.step)) |->
                              HeaderFromRunStart(PySliceFrom(found, stop, key.step)[i])],
                          <<QLast(start)>>)

\* broker.py 180-204
SearchSlice(key, mds) ==
    IF key.start # NoneInt /\ key.start[1] > 0 - 1
    THEN Raises("ValueError", "slice.start", <<>>)
    ELSE IF key.stop # NoneInt /\ key.stop[1] > 0
    THEN Raises("ValueError", "slice.stop", <<>>)
    ELSE IF key.start = NoneInt
    THEN Raises("ValueError", "slice.start is None", <<>>)
    ELSE LET start == 0 - key.start[1]
             stop == IF key.stop # NoneInt THEN Some(0 - key.stop[1]) ELSE NoneInt
             found == find_last(mds, start)
         IN  \* list(...)[stop::key.step] raises on a step of zero
             IF key.step = Some(0)
             THEN Raises("ValueError", "slice step", <<QLast(start)>>)
             ELSE Returns([i \in 1..Len(PySliceFrom(found, stop, key.step)) |->
                              HeaderFromRunStart(PySliceFrom(found, stop, key.step)[i])],
                          <<QLast(start)>>)

\* the scan id branch taking the oldest match instead of the first
SearchScanIdOldest(key, mds) ==
    LET gen == find_run_starts_scan_id(mds, key.n)
    IN  IF gen = <<>>
        THEN Raises("ValueError", "No such run", <<QScanId(key.n)>>)
        ELSE Returns(HeaderFromRunStart(gen[Len(gen)]), <<QScanId(key.n)>>)

\* broker.py 210-218
SearchScanId(key, mds) ==
    LET gen == find_run_starts_scan_id(mds, key.n)
    IN  IF gen = <<>>
        THEN Raises("ValueError", "No such run", <<QScanId(key.n)>>)
        ELSE Returns(HeaderFromRunStart(gen[1]), <<QScanId(key.n)>>)

\* the Nth-last branch reporting the number asked for
SearchNthLastWrongCount(key, mds) ==
    LET gen == find_last(mds, 0 - key.n)
    IN  IF Len(gen) < 0 - key.n
        THEN RaisesCount("IndexError", "There are only", 0 - key.n, <<QLast(0 - key.n)>>)
        ELSE Returns(HeaderFromRunStart(gen[0 - key.n]), <<QLast(0 - key.n)>>)

\* broker.py 219-229: next(gen) is called -key times; the i-th call (from 0)
\* that finds gen exhausted raises IndexError naming i
SearchNthLast(key, mds) ==
    LET gen == find_last(mds, 0 - key.n)
    IN  IF \E i \in 0..((0 - key.n) - 1) : i + 1 > Len(gen)
        THEN RaisesCount("IndexError", "There are only",
                    CHOOSE i \in 0..((0 - key.n) - 1) :
                        /\ i + 1 > Len(gen)
                        /\ \A j \in 0..(i - 1) : j + 1 <= Len(gen),
                    <<QLast(0 - key.n)>>)
        ELSE Returns(HeaderFromRunStart(gen[0 - key.n]), <<QLast(0 - key.n)>>)

\* broker.py 207-229
SearchInt(key, mds) ==
    IF key.n > 0 - 1 THEN SearchScanId(key, mds) ELSE SearchNthLast(key, mds)

\* broker.py 232-258
SearchStr(key, mds) ==
    LET full == Len(key.s) = UidLen
        exact == IF full THEN find_run_starts_uid(mds, key.s) ELSE <<>>
        q1 == IF full THEN <<QUid(key.s)>> ELSE <<>>
        partial == exact = <<>>
        results == IF partial THEN find_run_starts_regex(mds, key.s) ELSE exact
        queries == IF partial THEN Append(q1, QRegex(key.s)) ELSE q1
    IN  IF results = <<>>
        THEN Raises("ValueError", "No such run", queries)
        ELSE IF Len(results) > 1
        THEN RaisesCount("ValueError", "matches", Len(results), queries)
        ELSE Returns(HeaderFromRunStart(results[1]), queries)

\* the default branch asking the store for its last run first
SearchDefaultQueries(key, mds) == Raises("ValueError", "Must give", <<QLast(1)>>)

\* broker.py 170-177
SearchDefault(key, mds) == Raises("ValueError", "Must give", <<>>)

RECURSIVE search(_, _)
RECURSIVE SearchEach(_, _, _, _)
\* the comprehension stopping after its first element
SearchEachFirstOnly(items, mds, done, queries) ==
    IF items = <<>>
    THEN Returns(done, queries)
    ELSE LET r == search(items[1], mds)
         IN  IF r.status = "raise"
             THEN [r EXCEPT !.queries = queries \o r.queries]
             ELSE Returns(Append(done, r.value), queries \o r.queries)

\* broker.py 267: [search(k, mds) for k in key], left to right; the first
\* element that raises ends the comprehension
SearchEach(items, mds, done, queries) ==
    IF items = <<>>
    THEN Returns(done, queries)
    ELSE LET r == search(items[1], mds)
         IN  IF r.status = "raise"
             THEN [r EXCEPT !.queries = queries \o r.queries]
             ELSE SearchEach(Tail(items), mds, Append(done, r.value),
                             queries \o r.queries)

\* broker.py 170-267: dispatch on the type of the key
search(key, mds) ==
    IF key.type = "slice" THEN SearchSlice(key, mds)
    ELSE IF key.type = "int" THEN SearchInt(key, mds)
    ELSE IF key.type = "str" THEN SearchStr(key, mds)
    ELSE IF key.type \in {"set", "tuple", "list"} THEN SearchEach(key.items, mds, <<>>, <<>>)
    ELSE SearchDefault(key, mds)

\* ------------------------------------------------------- search: actions
InitSearch ==
    /\ EmIdle
    /\ SdIdle
    /\ ExIdle
    /\ HioIdle
    /\ mds_runs = <<>>
    /\ s_key = NoKey
    /\ s_result = NoResult

\* a run is recorded: its start is inserted into the metadata store
MdsInsertRunStart(scan_id) ==
    /\ Len(mds_runs) < MaxRuns
    /\ mds_runs' = Append(mds_runs, [uid |-> RunUids[Len(mds_runs) + 1],
                                     scan_id |-> scan_id,
                                     time |-> Len(mds_runs) + 1])
    /\ UNCHANGED <<s_key, s_result, not_se_vars>>

\* broker.py 352-354
Getitem(key) ==
    /\ s_key' = key
    /\ s_result' = search(key, mds_runs)
    /\ UNCHANGED <<mds_runs, not_se_vars>>

NextSearch ==
    \/ \E scan_id \in ScanIds : MdsInsertRunStart(scan_id)
    \/ \E key \in Keys : Getitem(key)

SpecSearch == InitSearch /\ [][NextSearch]_vars

\* ------------------------------------------------------ export: its inputs
\* number of headers in the list given to export
MaxHeaders == 2

\* the source blob store self.fs: its resources and its datums
SrcResources ==
    [R1 |-> [uid |-> "R1", spec |-> "TIFF", resource_path |-> "a/img",
             resource_kwargs |-> [frames |-> 3]],
     R2 |-> [uid |-> "R2", spec |-> "HDF5", resource_path |-> "b/scan.h5",
             resource_kwargs |-> EmptyDict]]
SrcDatums ==
    <<[datum_id |-> "dat1", resource |-> "R1", datum_kwargs |-> [frame |-> 0]],
      [datum_id |-> "dat2", resource |-> "R1", datum_kwargs |-> [frame |-> 1]],
      [datum_id |-> "dat3", resource |-> "R1", datum_kwargs |-> [frame |-> 2]],
      [datum_id |-> "dat4", resource |-> "R2", datum_kwargs |-> EmptyDict]>>

\* self.fs.resource_given_uid(uid)
resource_given_uid(uid) == SrcResources[uid]

\* self.fs.resource_given_eid(eid): the resource the datum eid belongs to
resource_given_eid(eid) ==
    LET i == CHOOSE i \in 1..Len(SrcDatums) : SrcDatums[i].datum_id = eid
    IN  SrcResources[SrcDatums[i].resource]

\* self.fs.datum_gen_given_resource(uid)
datum_gen_given_resource(uid) ==
    LET Of(datum) == datum.resource = uid IN SelectSeq(SrcDatums, Of)

\* self.fs.copy_files(uid, new_root=new_root): the (old, new) path pairs
new_root == "new"
copy_files(uid) ==
    IF uid = "R1"
    THEN <<<<"a/img/0", "new/img/0">>, <<"a/img/1", "new/img/1">>>>
    ELSE <<<<"b/scan.h5", "new/scan.h5">>>>

\* the uid db.fs.insert_resource gives the n-th resource it registers
NewResourceUids == <<"N1", "N2", "N3", "N4", "N5", "N6", "N7", "N8">>

External == [dtype |-> "array", external |-> "FILESTORE:"]
Literal == [dtype |-> "number"]

\* a run: its documents, `events` being what get_events yields for it
HeaderA ==
    [start |-> [uid |-> "s1", scan_id |-> 1],
     descriptors |-> <<[uid |-> "d1", run_start |-> "s1", name |-> "primary",
                        data_keys |-> [img |-> External, x |-> Literal]]>>,
     events |-> <<[uid |-> "e1", descriptor |-> "d1", seq_num |-> 1,
                   data |-> [img |-> "dat1", x |-> 1], filled |-> [img |-> FALSE]],
                  [uid |-> "e2", descriptor |-> "d1", seq_num |-> 2,
                   data |-> [img |-> "dat2", x |-> 2], filled |-> [img |-> FALSE]]>>,
     stop |-> [uid |-> "p1", run_start |-> "s1", exit_status |-> "success"]]
HeaderB ==
    [start |-> [uid |-> "s2", scan_id |-> 2],
     descriptors |-> <<[uid |-> "d2", run_start |-> "s2", name |-> "primary",
                        data_keys |-> [img |-> External, x |-> Literal]],
                       [uid |-> "d3", run_start |-> "s2", name |-> "baseline",
                        data_keys |-> [cam |-> External]]>>,
     events |-> <<[uid |-> "e3", descriptor |-> "d3", seq_num |-> 1,
                   data |-> [cam |-> "dat4"], filled |-> [cam |-> FALSE]],
                  [uid |-> "e4", descriptor |-> "d2", seq_num |-> 1,
                   data |-> [img |-> "dat3", x |-> 1], filled |-> [img |-> FALSE]]>>,
     stop |-> [uid |-> "p2", run_start |-> "s2", exit_status |-> "success"]]
HeaderC ==
    [start |-> [uid |-> "s3", scan_id |-> 3],
     descriptors |-> <<>>,
     events |-> <<>>,
     stop |-> [uid |-> "p3", run_start |-> "s3", exit_status |-> "abort"]]
HeaderD ==
    [start |-> [uid |-> "s4", scan_id |-> 4],
     descriptors |-> <<[uid |-> "d4", run_start |-> "s4", name |-> "primary",
                        data_keys |-> [x |-> Literal]]>>,
     events |-> <<[uid |-> "e5", descriptor |-> "d4", seq_num |-> 1,
                   data |-> [x |-> 1], filled |-> EmptyDict]>>,
     stop |-> [uid |-> "p4", run_start |-> "s4", exit_status |-> "success"]]
Headers == {HeaderA, HeaderB, HeaderC, HeaderD}

\* the headers argument: one Header (it has .items()) or a list of them
OneHeader(header) == [type |-> "Header", header |-> header]
HeaderList(items) == [type |-> "list", items |-> items]
ExportArgs ==
    {OneHeader(h) : h \in Headers} \cup
    {HeaderList(items) : items \in UNION {[1..n -> Headers] : n \in 0..MaxHeaders}}

\* ------------------------------------------------------ export: the calls
MdsCall(h, name, doc) == [on |-> "db.mds", call |-> name, doc |-> doc, h |-> h]
CopyFilesCall(h, uid) ==
    [on |-> "self.fs", call |-> "copy_files", uid |-> uid, root |-> new_root, h |-> h]
InsertResourceCall(h, res, returned) ==
    [on |-> "db.fs", call |-> "insert_resource", spec |-> res.spec,
     resource_path |-> res.resource_path, resource_kwargs |-> res.resource_kwargs,
     root |-> new_root, returned |-> returned, h |-> h]
InsertDatumCall(h, resource, datum_id, datum_kwargs) ==
    [on |-> "db.fs", call |-> "insert_datum", resource |-> resource,
     datum_id |-> datum_id, datum_kwargs |-> datum_kwargs, h |-> h]
InsertResourceCalls == SelectSeq(ex_calls, LAMBDA c : c.call = "insert_resource")

\* db.fs.insert_resource(spec, resource_path, resource_kwargs, root): the
\* resource document registered, under a uid of its own
insert_resource(res) ==
    [uid |-> NewResourceUids[Len(InsertResourceCalls) + 1], spec |-> res.spec,
     resource_path |-> res.resource_path, resource_kwargs |-> res.resource_kwargs,
     root |-> new_root]

\* broker.py 651-655
external_keys(header) ==
    UNION {{k \in DOMAIN header.descriptors[i].data_keys :
                "external" \in DOMAIN header.descriptors[i].data_keys[k]}
           : i \in 1..Len(header.descriptors)}

\* broker.py 636-664
get_resource_uids(header) ==
    {resource_given_eid(header.events[i].data[k]).uid :
        <<i, k>> \in {ik \in (1..Len(header.events)) \X external_keys(header) :
                        ik[2] \in DOMAIN header.events[ik[1]].data}}

\* ------------------------------------------------------ export: actions
InitExport ==
    /\ EmIdle
    /\ SdIdle
    /\ SeIdle
    /\ HioIdle
    /\ ex_arg \in ExportArgs
    /\ ex_headers = <<>>
    /\ file_pairs = <<>>
    /\ ex_pc = "called"
    /\ ex_h = 0
    /\ ex_d = 0
    /\ ex_events = <<>>
    /\ ex_res_uids = {}
    /\ ex_new_res = None
    /\ ex_datums = <<>>
    /\ ex_calls = <<>>
    /\ ex_return = None

ex_header == ex_headers[ex_h]

\* broker.py 775-783: a single Header is wrapped into a list
ExBegin ==
    /\ ex_pc = "called"
    /\ ex_headers' = IF ex_arg.type = "Header" THEN <<ex_arg.header>> ELSE ex_arg.items
    /\ file_pairs' = <<>>
    /\ ex_h' = 1
    /\ ex_pc' = "header"
    /\ UNCHANGED <<ex_arg, ex_d, ex_events, ex_res_uids, ex_new_res, ex_datums,
                   ex_calls, ex_return, not_ex_vars>>

\* broker.py 784-787: the next header; its Start is inserted and the
\* generator `events` is made
ExInsertRunStart ==
    /\ ex_pc = "header"
    /\ ex_h <= Len(ex_headers)
    /\ ex_calls' = Append(ex_calls, MdsCall(ex_h, "insert_run_start", ex_header.start))
    /\ ex_events' = ex_header.events
    /\ ex_d' = 1
    /\ ex_pc' = "descriptors"
    /\ UNCHANGED <<ex_arg, ex_headers, file_pairs, ex_h, ex_res_uids, ex_new_res,
                   ex_datums, ex_return, not_ex_vars>>

\* broker.py 788-789
ExInsertDescriptor ==
    /\ ex_pc = "descriptors"
    /\ ex_d <= Len(ex_header.descriptors)
    /\ ex_calls' = Append(ex_calls, MdsCall(ex_h, "insert_descriptor",
                                            ex_header.descriptors[ex_d]))
    /\ ex_pc' = "events"
    /\ UNCHANGED <<ex_arg, ex_headers, file_pairs, ex_h, ex_d, ex_events, ex_res_uids,
                   ex_new_res, ex_datums, ex_return, not_ex_vars>>

\* the event is inserted as get_events gave it
ExInsertEventKeepsFilled ==
    /\ ex_pc = "events"
    /\ ex_events # <<>>
    /\ ex_calls' = Append(ex_calls, MdsCall(ex_h, "insert_event", Head(ex_events)))
    /\ ex_events' = Tail(ex_events)
    /\ UNCHANGED <<ex_arg, ex_headers, file_pairs, ex_pc, ex_h, ex_d, ex_res_uids,
                   ex_new_res, ex_datums, ex_return, not_ex_vars>>

\* broker.py 790-795: the generator `events` yields its next event
ExInsertEvent ==
    /\ ex_pc = "events"
    /\ ex_events # <<>>
    /\ LET event == DictPop(Head(ex_events), "filled")
       IN  ex_calls' = Append(ex_calls, MdsCall(ex_h, "insert_event", event))
    /\ ex_events' = Tail(ex_events)
    /\ UNCHANGED <<ex_arg, ex_headers, file_pairs, ex_pc, ex_h, ex_d, ex_res_uids,
                   ex_new_res, ex_datums, ex_return, not_ex_vars>>

\* broker.py 790: the generator `events` is exhausted, for this descriptor
\* and for every later one
ExEventsExhausted ==
    /\ ex_pc = "events"
    /\ ex_events = <<>>
    /\ ex_d' = ex_d + 1
    /\ ex_pc' = "descriptors"
    /\ UNCHANGED <<ex_arg, ex_headers, file_pairs, ex_h, ex_events, ex_res_uids,
                   ex_new_res, ex_datums, ex_calls, ex_return, not_ex_vars>>

\* broker.py 796-798
ExInsertRunStop ==
    /\ ex_pc = "descriptors"
    /\ ex_d > Len(ex_header.descriptors)
    /\ ex_calls' = Append(ex_calls, MdsCall(ex_h, "insert_run_stop", ex_header.stop))
    /\ ex_res_uids' = get_resource_uids(ex_header)
    /\ ex_pc' = "resources"
    /\ UNCHANGED <<ex_arg, ex_headers, file_pairs, ex_h, ex_d, ex_events, ex_new_res,
                   ex_datums, ex_return, not_ex_vars>>

\* broker.py 799-808: the set res_uids is visited in an order of its own
ExCopyResource ==
    /\ ex_pc = "resources"
    /\ \E uid \in ex_res_uids :
          LET fps == copy_files(uid)
              res == resource_given_uid(uid)
              new_res == insert_resource(res)
          IN  /\ file_pairs' = file_pairs \o fps
              /\ ex_new_res' = new_res
              /\ ex_datums' = datum_gen_given_resource(uid)
              /\ ex_calls' = ex_calls \o <<CopyFilesCall(ex_h, uid),
                                           InsertResourceCall(ex_h, res, new_res)>>
              /\ ex_res_uids' = ex_res_uids \ {uid}
    /\ ex_pc' = "datums"
    /\ UNCHANGED <<ex_arg, ex_headers, ex_h, ex_d, ex_events, ex_return, not_ex_vars>>

\* the datum is inserted under the resource it had in self.fs
ExInsertDatumOldResource ==
    /\ ex_pc = "datums"
    /\ ex_datums # <<>>
    /\ LET datum == Head(ex_datums)
       IN  ex_calls' = Append(ex_calls,
               InsertDatumCall(ex_h, resource_given_uid(datum.resource),
                               datum.datum_id, datum.datum_kwargs))
    /\ ex_datums' = Tail(ex_datums)
    /\ UNCHANGED <<ex_arg, ex_headers, file_pairs, ex_pc, ex_h, ex_d, ex_events,
                   ex_res_uids, ex_new_res, ex_return, not_ex_vars>>

\* broker.py 808-811
ExInsertDatum ==
    /\ ex_pc = "datums"
    /\ ex_datums # <<>>
    /\ LET datum == Head(ex_datums)
       IN  ex_calls' = Append(ex_calls,
               InsertDatumCall(ex_h, ex_new_res, datum.datum_id, datum.datum_kwargs))
    /\ ex_datums' = Tail(ex_datums)
    /\ UNCHANGED <<ex_arg, ex_headers, file_pairs, ex_pc, ex_h, ex_d, ex_events,
                   ex_res_uids, ex_new_res, ex_return, not_ex_vars>>

\* broker.py 809: datums is exhausted
ExDatumsExhausted ==
    /\ ex_pc = "datums"
    /\ ex_datums = <<>>
    /\ ex_pc' = "resources"
    /\ UNCHANGED <<ex_arg, ex_headers, file_pairs, ex_h, ex_d, ex_events, ex_res_uids,
                   ex_new_res, ex_datums, ex_calls, ex_return, not_ex_vars>>

\* broker.py 799: every resource uid has been visited
ExNextHeader ==
    /\ ex_pc = "resources"
    /\ ex_res_uids = {}
    /\ ex_h' = ex_h + 1
    /\ ex_pc' = "header"
    /\ UNCHANGED <<ex_arg, ex_headers, file_pairs, ex_d, ex_events, ex_res_uids,
                   ex_new_res, ex_datums, ex_calls, ex_return, not_ex_vars>>

\* broker.py 812
ExReturn ==
    /\ ex_pc = "header"
    /\ ex_h > Len(ex_headers)
    /\ ex_return' = file_pairs
    /\ ex_pc' = "done"
    /\ UNCHANGED <<ex_arg, ex_headers, file_pairs, ex_h, ex_d, ex_events, ex_res_uids,
                   ex_new_res, ex_datums, ex_calls, not_ex_vars>>

NextExport ==
    \/ ExBegin
    \/ ExInsertRunStart
    \/ ExInsertDescriptor
    \/ ExInsertEvent
    \/ ExEventsExhausted
    \/ ExInsertRunStop
    \/ ExCopyResource
    \/ ExInsertDatum
    \/ ExDatumsExhausted
    \/ ExNextHeader
    \/ ExReturn

SpecExport == InitExport /\ [][NextExport]_vars

\* --------------------------------------------------- header_io: its inputs
\* number of documents f(stream) yields
MaxOut == 4

\* what f(stream) may yield: (name, doc) pairs
HioDocuments ==
    {[name |-> "start", doc |-> PyDoc([uid |-> RunUids[i], scan_id |-> i])] : i \in 1..2}
    \cup {[name |-> "descriptor", doc |-> PyDoc([uid |-> "d1"])],
          [name |-> "event", doc |-> PyDoc([uid |-> "e1"])],
          [name |-> "stop", doc |-> PyDoc([uid |-> "p1"])]}

\* the exception f raises
OperatorError == Raises("OperatorError", "f", <<>>)

\* ----------------------------------------------------- header_io: actions
\* broker.py 1072-1073
InitHeaderIo ==
    /\ EmIdle
    /\ SdIdle
    /\ SeIdle
    /\ ExIdle
    /\ output_uids = <<>>
    /\ hio_pc = "draining"
    /\ hio_result = NoResult
    /\ hio_yielded = <<>>
    /\ hio_dst = <<>>
    /\ hio_lookups = <<>>

\* f, on yielding a Start, has or has not inserted it into db_out
Stored(dst, item, stored) ==
    IF /\ stored
       /\ item.name = "start"
       /\ \A i \in 1..Len(dst) : dst[i].uid # item.doc.doc.uid
    THEN Append(dst, [uid |-> item.doc.doc.uid, scan_id |-> item.doc.doc.scan_id,
                      time |-> Len(dst) + 1])
    ELSE dst

\* the uid of a Start is put in front of output_uids
HioYieldPrepends(item, stored) ==
    /\ hio_pc = "draining"
    /\ Len(hio_yielded) < MaxOut
    /\ hio_yielded' = Append(hio_yielded, item)
    /\ hio_dst' = Stored(hio_dst, item, stored)
    /\ output_uids' = IF item.name = "start"
                      THEN <<doc_or_uid_to_uid(item.doc)>> \o output_uids
                      ELSE output_uids
    /\ UNCHANGED <<hio_pc, hio_result, hio_lookups, not_hio_vars>>

\* broker.py 1074-1076: f(stream) yields its next (name, doc)
HioYield(item, stored) ==
    /\ hio_pc = "draining"
    /\ Len(hio_yielded) < MaxOut
    /\ hio_yielded' = Append(hio_yielded, item)
    /\ hio_dst' = Stored(hio_dst, item, stored)
    /\ output_uids' = IF item.name = "start"
                      THEN Append(output_uids, doc_or_uid_to_uid(item.doc))
                      ELSE output_uids
    /\ UNCHANGED <<hio_pc, hio_result, hio_lookups, not_hio_vars>>

\* broker.py 1074: f(stream) raises; nothing in inner catches it
HioOperatorRaises ==
    /\ hio_pc = "draining"
    /\ hio_pc' = "raised"
    /\ hio_result' = OperatorError
    /\ UNCHANGED <<output_uids, hio_yielded, hio_dst, hio_lookups, not_hio_vars>>

\* broker.py 1074, 1077: f(stream) is exhausted and db_out[output_uids] is
\* returned, or raises
HioExhausted ==
    /\ hio_pc = "draining"
    /\ LET key == ListKey([i \in 1..Len(output_uids) |-> StrKey(output_uids[i])])
           result == search(key, hio_dst)
       IN  /\ hio_lookups' = Append(hio_lookups, key)
           /\ hio_result' = result
           /\ hio_pc' = IF result.status = "ok" THEN "returned" ELSE "raised"
    /\ UNCHANGED <<output_uids, hio_yielded, hio_dst, not_hio_vars>>

NextHeaderIo ==
    \/ \E item \in HioDocuments :
          \E stored \in (IF item.name = "start" THEN BOOLEAN ELSE {FALSE}) :
              HioYield(item, stored)
    \/ HioOperatorRaises
    \/ HioExhausted

SpecHeaderIo == InitHeaderIo /\ [][NextHeaderIo]_vars

\* ------------------------------------------------ event_map: properties

\* this step pulled a document of the given kind
Pulled(name) ==
    /\ Len(em_in') = Len(em_in) + 1
    /\ Last(em_in').name = name
\* this step yielded a document of the given kind
Yielded(name) ==
    /\ Len(em_out') = Len(em_out) + 1
    /\ Last(em_out').name = name

\* `in` is a prefix of a well-formed run: a Start, one Descriptor of the
\* target stream that has the configured fields, Events of that Descriptor
\* (each with a value for every field of the Descriptor), then the run's Stop
WellFormedRun(in) ==
    /\ Len(in) >= 1 => in[1].name = "start"
    /\ Len(in) >= 2 => /\ in[2].name = "descriptor"
                       /\ in[2].doc.name = stream_name
                       /\ DOMAIN data_keys \subseteq DOMAIN in[2].doc.data_keys
    /\ \A i \in 3..Len(in) :
          \/ /\ in[i].name = "event"
             /\ doc_or_uid_to_uid(in[i].doc.descriptor) = in[2].doc.uid
             /\ DOMAIN in[i].doc.data = DOMAIN in[2].doc.data_keys
          \/ /\ i = Len(in)
             /\ in[i].name = "stop"
             /\ in[i].doc.run_start = in[1].doc.uid

FNeverRaises == \A v \in Values : f[v] # Raise

\* C1: on a well-formed source run (Start, Descriptor of the target stream,
\* n Events, Stop) with a transform that never raises, event_map emits one
\* document per source document, of the same kind and in the same order,
\* hence 1 Start, 1 Descriptor, n Events, 1 Stop; the Start has a fresh uid
\* and parents = [source Start uid], each Event carries f(value) for every
\* mapped field, and the Stop has exit_status = success.
C1_WellFormedRunIsMapped ==
    (WellFormedRun(em_in) /\ FNeverRaises) =>
        /\ em_pc \in {"ready", "done"}
        /\ Len(em_out) = Len(em_in)
        /\ \A i \in DOMAIN em_out : em_out[i].name = em_in[i].name
        /\ Len(em_out) >= 1 =>
              /\ em_out[1].doc.parents = <<em_in[1].doc.uid>>
              /\ em_out[1].doc.uid \notin SourceUids
              /\ \A j \in 2..Len(em_out) : em_out[j].doc.uid # em_out[1].doc.uid
        /\ \A i \in DOMAIN em_out :
              /\ em_out[i].name = "event" =>
                    \A k \in DOMAIN data_keys :
                        em_out[i].doc.data[k] = f[em_in[i].doc.data[k]]
              /\ em_out[i].name = "stop" =>
                    em_out[i].doc.exit_status = "success"

\* C1 witness: a complete well-formed run with at least two Events was mapped
C1_Witness ==
    /\ WellFormedRun(em_in) /\ FNeverRaises
    /\ Len(em_in) >= 5
    /\ Last(em_in).name = "stop"
    /\ Len(em_out) = Len(em_in)
    /\ Last(em_out).doc.exit_status = "success"

IsFailureStop(o) == o.name = "stop" /\ o.doc.exit_status = "failure"

\* C2: when f raises on an Event, the output is what was emitted before,
\* followed by exactly one Stop with exit_status = failure for the derived
\* run (on a well-formed run: Start, Descriptor, the k-1 earlier Events, the
\* failure Stop); the failing Event is not emitted, the next pull raises the
\* original exception, and nothing is ever emitted after the failure Stop.
C2_FailureStopState ==
    /\ \A i \in DOMAIN em_out : IsFailureStop(em_out[i]) => i = Len(em_out)
    /\ em_exc = "TransformError" =>
          /\ em_pc \in {"failstop", "raised"}
          /\ Last(em_in).name = "event"
          /\ IsFailureStop(Last(em_out))
          /\ \E j \in DOMAIN em_out :
                /\ em_out[j].name = "start"
                /\ em_out[j].doc.uid = Last(em_out).doc.run_start
                /\ \A i \in (j + 1)..Len(em_out) : em_out[i].name # "start"
          /\ WellFormedRun(em_in) =>
                /\ Len(em_out) = Len(em_in)
                /\ \A i \in 1..(Len(em_in) - 1) : em_out[i].name = em_in[i].name
C2_FailureStopStep ==
    /\ (Pulled("event") /\ em_exc' = "TransformError") =>
          /\ em_out' = Append(em_out, Last(em_out'))
          /\ IsFailureStop(Last(em_out'))
          /\ em_pc' = "failstop"
    /\ em_pc = "failstop" =>
          /\ em_pc' = "raised"
          /\ em_exc' = em_exc
          /\ em_out' = em_out
          /\ em_in' = em_in
    /\ em_pc # "raised"
\* C2: the failure Stop is the last document of the output, it follows the
\* documents emitted before f raised, and the next pull raises f's exception.
C2_TransformFailure == [][C2_FailureStopState' /\ C2_FailureStopStep]_vars

\* C2 witness: f raised on the 2nd (or a later) Event of a well-formed run
\* and the exception has reached the caller
C2_Witness ==
    /\ em_pc = "raised"
    /\ em_exc = "TransformError"
    /\ WellFormedRun(em_in)
    /\ Len(em_in) >= 4
    /\ IsFailureStop(Last(em_out))

\* the index of the last Start emitted before position i (0 if there is none)
LastStartBefore(out, i) ==
    IF \E j \in 1..(i - 1) : out[j].name = "start"
    THEN CHOOSE j \in 1..(i - 1) :
            /\ out[j].name = "start"
            /\ \A l \in (j + 1)..(i - 1) : out[l].name # "start"
    ELSE 0

\* C5: after a Start no Event is emitted until a new Descriptor of the target
\* stream has been processed: every emitted Event references a Descriptor
\* that was emitted after the most recently emitted Start and belongs to it.
C5_StartResetsDescriptor ==
    \A i \in DOMAIN em_out :
        em_out[i].name = "event" =>
            LET s == LastStartBefore(em_out, i) IN
            /\ s > 0
            /\ \E j \in (s + 1)..(i - 1) :
                  /\ em_out[j].name = "descriptor"
                  /\ em_out[j].doc.uid = em_out[i].doc.descriptor.str
                  /\ em_out[j].doc.run_start = em_out[s].doc.uid

\* C6: the Descriptor emitted for a Descriptor of the target stream has, for
\* every configured field, the source schema updated with the configured
\* fragment.
C6_SchemaFragmentMerged ==
    [][(Pulled("descriptor") /\ Yielded("descriptor")) =>
          LET src == Last(em_in').doc
              out == Last(em_out').doc
          IN  \A k \in (DOMAIN data_keys) \cap (DOMAIN src.data_keys) :
                  out.data_keys[k] = DictUpdate(src.data_keys[k], data_keys[k])
      ]_vars

\* C7: f is applied to exactly the event data fields that are keys of the
\* data_keys argument; every other field of the data is copied unchanged.
C7_OnlyConfiguredFieldsMapped ==
    [][(Pulled("event") /\ Yielded("event")) =>
          LET src == Last(em_in').doc
              out == Last(em_out').doc
          IN  /\ f_calls' = (DOMAIN data_keys) \cap (DOMAIN src.data)
              /\ \A k \in (DOMAIN src.data) \ (DOMAIN data_keys) :
                    out.data[k] = src.data[k]
      ]_vars

\* C8: a Descriptor of the target stream or a Stop pulled while no derived
\* run is active raises the protocol error and emits nothing.
C8_ProtocolErrorWithoutRun ==
    [][(/\ run_start_uid = None
        /\ \/ Pulled("stop")
           \/ Pulled("descriptor") /\ Last(em_in').doc.name = stream_name) =>
          /\ em_pc' = "raised"
          /\ em_exc' = "RuntimeError"
          /\ em_out' = em_out
      ]_vars

\* C8 witness: protocol errors were raised for a Descriptor before any Start
\* and for a Stop after a Stop
C8_WitnessDescriptor ==
    /\ em_pc = "raised" /\ em_exc = "RuntimeError"
    /\ Last(em_in).name = "descriptor"
    /\ em_out = <<>>
C8_Witness ==
    /\ em_pc = "raised" /\ em_exc = "RuntimeError"
    /\ Len(em_in) >= 3
    /\ Last(em_in).name = "stop"
    /\ em_in[Len(em_in) - 1].name = "stop"
    /\ Last(em_out).name = "stop"

\* C9: an Event pulled while no derived run is active raises the protocol
\* error.
C9_EventWithoutRunRaises ==
    [][(run_start_uid = None /\ Pulled("event")) =>
          /\ em_pc' = "raised"
          /\ em_exc' = "RuntimeError"
      ]_vars

\* C10: a Stop pulled while a derived run is active emits one Stop with
\* exit_status = success for that run, whatever the incoming Stop's
\* run_start, and clears the active run and the active descriptor; a Stop
\* pulled right after it raises the protocol error; every later Start opens
\* a run with a new uid, and every Descriptor and Stop emitted afterwards
\* belongs to the most recently emitted Start.
C10_StopState ==
    /\ \A i, j \in DOMAIN em_out :
          (i # j /\ em_out[i].name = "start" /\ em_out[j].name = "start") =>
              em_out[i].doc.uid # em_out[j].doc.uid
    /\ \A i \in DOMAIN em_out :
          em_out[i].name \in {"descriptor", "stop"} =>
              LET s == LastStartBefore(em_out, i) IN
              /\ s > 0
              /\ em_out[i].doc.run_start = em_out[s].doc.uid
              /\ \A l \in (s + 1)..(i - 1) : em_out[l].name # "stop"
C10_StopStep ==
    /\ (Pulled("stop") /\ run_start_uid # None) =>
          /\ em_out' = Append(em_out, Last(em_out'))
          /\ Last(em_out').name = "stop"
          /\ Last(em_out').doc.exit_status = "success"
          /\ Last(em_out').doc.run_start = run_start_uid
          /\ run_start_uid' = None
          /\ descriptor_uid' = None
          /\ em_pc' = "ready"
    /\ (Pulled("stop") /\ Len(em_in) > 0 /\ Last(em_in).name = "stop") =>
          /\ em_pc' = "raised"
          /\ em_exc' = "RuntimeError"
          /\ em_out' = em_out
\* C10: a Stop of an active run emits its success Stop and clears the run and
\* the descriptor; a second Stop raises; later runs get new uids.
C10_StopClearsRun == [][C10_StopState' /\ C10_StopStep]_vars

\* C10 witness: after a Stop whose run_start names another run, a second
\* Start/Stop cycle was processed as a new derived run
C10_Witness ==
    /\ Len(em_out) >= 4
    /\ em_in[2].name = "stop"
    /\ em_in[1].doc.uid # em_in[2].doc.run_start
    /\ em_out[2].name = "stop"
    /\ em_out[3].name = "start"
    /\ Last(em_out).name = "stop"
    /\ Last(em_out).doc.run_start = em_out[3].doc.uid
    /\ Last(em_out).doc.run_start # em_out[2].doc.run_start

\* the locals of event_map.inner
em_locals == <<run_start_uid, descriptor_uid, new_data_keys, new_descriptor_uid>>

\* C11: a Descriptor whose name is not the target stream name, and an Event
\* whose descriptor is not the active source descriptor, are dropped: the
\* step emits nothing, raises nothing and leaves the active run and the
\* active descriptor as they were.
C11_OtherDocumentsDropped ==
    [][(\/ /\ Pulled("descriptor")
           /\ Last(em_in').doc.name # stream_name
        \/ /\ Pulled("event")
           /\ doc_or_uid_to_uid(Last(em_in').doc.descriptor) # descriptor_uid) =>
          /\ em_out' = em_out
          /\ em_locals' = em_locals
          /\ em_pc' = em_pc
          /\ em_exc' = em_exc
          /\ em_uuids' = em_uuids
      ]_vars

\* C11 witness: while a run and a descriptor are active, a Descriptor of
\* another stream and an Event of another descriptor were pulled and dropped
C11_Witness ==
    /\ em_pc = "ready"
    /\ run_start_uid # None
    /\ descriptor_uid # None
    /\ Len(em_in) = 4
    /\ Len(em_out) = 2
    /\ em_in[3].name = "descriptor"
    /\ em_in[4].name = "event"
    /\ doc_or_uid_to_uid(em_in[4].doc.descriptor) # descriptor_uid

\* ------------------------------------------------ store_dec: properties

\* this step of store_dec pulled a document of the given kind and yielded
SdProcessed(name) ==
    /\ Len(sd_in') = Len(sd_in) + 1
    /\ Last(sd_in').name = name
    /\ Len(sd_out') = Len(sd_out) + 1
    /\ Len(sd_inserted') = Len(sd_inserted) + 1

\* C3: for a Descriptor only the persisted copy has its data_keys entries of
\* configured fields annotated as externally stored; the emitted Descriptor
\* has no such annotation and equals the input Descriptor as it was pulled.
C3_EmittedDescriptorPristine ==
    [][SdProcessed("descriptor") =>
          LET src == Last(sd_in').doc
              out == Last(sd_out').doc
              fs == Last(sd_inserted').doc
          IN  /\ \A k \in external_writers \cap DOMAIN src.data_keys :
                    /\ "external" \in DOMAIN fs.data_keys[k]
                    /\ fs.data_keys[k].external = "FILESTORE:"
              /\ \A k \in DOMAIN out.data_keys :
                    "external" \notin DOMAIN out.data_keys[k]
              /\ out = src
      ]_vars

C12_StopClosesEveryWriter ==
    [][/\ SdProcessed("start") =>
             /\ DOMAIN writers' = external_writers
             /\ \A j, k \in external_writers : j # k => writers'[j] # writers'[k]
             /\ {writers'[k] : k \in external_writers} \cap (w_open \cup w_closed) = {}
             /\ w_open' = w_open \cup {writers'[k] : k \in external_writers}
             /\ w_closed' = w_closed
       /\ SdProcessed("event") =>
             {writers[k] : k \in WrittenKeys(Last(sd_in').doc)} \subseteq w_open
       /\ SdProcessed("stop") =>
             /\ w_closed' = w_closed \cup w_open
             /\ w_open \cap w_closed = {}
             /\ w_open' = {}
      ]_vars

\* C13: when a writer's write raises on an Event, the exception reaches the
\* caller in that step, the Event is neither inserted nor emitted, no writer
\* is closed and no later document is processed; a writer is closed only in a
\* step that processes a Stop, so the writers of a run stay open wherever the
\* consumer stops pulling before the Stop.
C13_WriterFailurePropagates ==
    [][/\ sd_pc # "raised"
       /\ sd_exc' = "WriterError" =>
             /\ Len(sd_in') = Len(sd_in) + 1
             /\ Last(sd_in').name = "event"
             /\ sd_pc' = "raised"
             /\ sd_inserted' = sd_inserted
             /\ sd_out' = sd_out
             /\ w_open' = w_open
             /\ w_closed' = w_closed
             /\ writers' = writers
       /\ (w_closed' # w_closed \/ ~ (w_open \subseteq w_open')) =>
             SdProcessed("stop")
      ]_vars

\* C13 witness: a write raised on an Event of a started run; the run's
\* writers are still open and the Event was neither inserted nor emitted
C13_Witness ==
    /\ sd_pc = "raised"
    /\ sd_exc = "WriterError"
    /\ Last(sd_in).name = "event"
    /\ Len(sd_out) = Len(sd_in) - 1
    /\ Len(sd_inserted) = Len(sd_in) - 1
    /\ writers # Unbound
    /\ DOMAIN writers # {}
    /\ {writers[k] : k \in DOMAIN writers} \subseteq w_open

\* ---------------------------------------------------- export: properties
\* the headers export is through with
ExportedHeaders ==
    {h \in 1..Len(ex_headers) : h < ex_h \/ (h = ex_h /\ ex_pc = "resources" /\ ex_res_uids = {})}
\* the calls export made for header h on the destination metadata store,
\* and on the two blob stores
MdsCallsFor(h) == SelectSeq(ex_calls, LAMBDA c : c.h = h /\ c.on = "db.mds")
FsCallsFor(h) == SelectSeq(ex_calls, LAMBDA c : c.h = h /\ c.on # "db.mds")
SameButFilled(doc, event) ==
    /\ DOMAIN doc = (DOMAIN event) \ {"filled"}
    /\ \A k \in DOMAIN doc : doc[k] = event[k]

\* C14: for each exported Header the destination metadata store receives the
\* Start first and the Stop last, and in between every Descriptor and every
\* Event of the run exactly once, each Event without its 'filled' field and
\* otherwise equal to the source Event
C14_ExportInsertionOrder ==
    \A h \in ExportedHeaders :
        LET H == ex_headers[h]
            m == MdsCallsFor(h)
            between == 2..(Len(m) - 1)
        IN  /\ Len(m) = 2 + Len(H.descriptors) + Len(H.events)
            /\ m[1].call = "insert_run_start" /\ m[1].doc = H.start
            /\ m[Len(m)].call = "insert_run_stop" /\ m[Len(m)].doc = H.stop
            /\ \A i \in 1..Len(H.descriptors) :
                  Cardinality({j \in between : /\ m[j].call = "insert_descriptor"
                                               /\ m[j].doc = H.descriptors[i]}) = 1
            /\ \A i \in 1..Len(H.events) :
                  Cardinality({j \in between : /\ m[j].call = "insert_event"
                                               /\ SameButFilled(m[j].doc, H.events[i])}) = 1

\* a run of two descriptors and two events has been exported
C14_Witness ==
    /\ ex_pc = "done"
    /\ \E h \in ExportedHeaders :
          /\ Len(ex_headers[h].descriptors) = 2
          /\ Len(ex_headers[h].events) = 2
          /\ Len(MdsCallsFor(h)) = 6

\* the source resources a run refers to: those of the datum ids its events
\* hold for the fields not filled in
ReferencedResources(H) ==
    {SrcDatums[d].resource :
        d \in {d \in 1..Len(SrcDatums) :
                 \E i \in 1..Len(H.events) :
                    \E k \in DOMAIN H.events[i].filled :
                        H.events[i].data[k] = SrcDatums[d].datum_id}}
DatumsOf(uid) == {d \in 1..Len(SrcDatums) : SrcDatums[d].resource = uid}
SrcResourceUids == {SrcResources[r].uid : r \in DOMAIN SrcResources}
RECURSIVE PairsOf(_)
\* the pairs the copy_files calls among `calls` returned, in call order
PairsOf(calls) ==
    IF calls = <<>> THEN <<>>
    ELSE (IF Head(calls).call = "copy_files" THEN copy_files(Head(calls).uid) ELSE <<>>)
         \o PairsOf(Tail(calls))

\* C15: for each exported Header and each distinct source Resource of the run
\* export calls copy_files once, registers one new Resource in the
\* destination and inserts one Datum per source Datum of that Resource with
\* its datum_id and datum_kwargs under the new Resource, never the source
\* one; it returns the pairs of all the copy_files calls, concatenated
C15_ExportResources ==
    /\ \A h \in ExportedHeaders :
          LET c == FsCallsFor(h)
              R == ReferencedResources(ex_headers[h])
              Calls(name) == {i \in 1..Len(c) : c[i].call = name}
          IN  /\ \A u \in R : Cardinality({i \in Calls("copy_files") : c[i].uid = u}) = 1
              /\ Cardinality(Calls("copy_files")) = Cardinality(R)
              /\ Cardinality(Calls("insert_resource")) = Cardinality(R)
              /\ \A i \in Calls("copy_files") :
                    LET u == c[i].uid
                        new_res == c[i + 1].returned
                        mine == {j \in Calls("insert_datum") : c[j].resource = new_res}
                    IN  /\ c[i + 1].call = "insert_resource"
                        /\ c[i + 1].spec = SrcResources[u].spec
                        /\ c[i + 1].resource_path = SrcResources[u].resource_path
                        /\ c[i + 1].resource_kwargs = SrcResources[u].resource_kwargs
                        /\ new_res.uid \notin SrcResourceUids
                        /\ Cardinality(mine) = Cardinality(DatumsOf(u))
                        /\ \A d \in DatumsOf(u) :
                              Cardinality({j \in mine :
                                  /\ c[j].datum_id = SrcDatums[d].datum_id
                                  /\ c[j].datum_kwargs = SrcDatums[d].datum_kwargs}) = 1
              /\ \A j \in Calls("insert_datum") :
                    /\ c[j].resource.uid \notin SrcResourceUids
                    /\ \E i \in Calls("insert_resource") : c[i].returned = c[j].resource
    /\ \A i, j \in 1..Len(InsertResourceCalls) :
          i # j => InsertResourceCalls[i].returned.uid # InsertResourceCalls[j].returned.uid
    /\ ex_pc = "done" => ex_return = PairsOf(ex_calls)

\* two runs have been exported, the first one referring to one resource
\* through two events, and the pairs of three copy_files calls were returned
C15_Witness ==
    /\ ex_pc = "done"
    /\ Len(ex_headers) = 2
    /\ ex_headers[1] = HeaderA /\ ex_headers[2] = HeaderB
    /\ Len(FsCallsFor(1)) = 5
    /\ Len(ex_return) = 5

\* ------------------------------------------------- header_io: properties
\* the uids of the Starts among the documents yielded, in the order yielded
StartUidsYielded ==
    LET starts == SelectSeq(hio_yielded, LAMBDA item : item.name = "start")
    IN  [i \in 1..Len(starts) |-> starts[i].doc.doc.uid]
InDestination(uid) == \E i \in 1..Len(hio_dst) : hio_dst[i].uid = uid

\* C16: header_io drains the operator's output, collecting the uid of every
\* Start in the order emitted; only once the output is exhausted does it look
\* the uids up in the destination broker, returning one Header per uid in
\* that order; if the operator raises, the exception propagates and nothing
\* is looked up
C16_DrainThenResolve ==
    /\ output_uids = StartUidsYielded
    /\ hio_pc = "draining" => hio_lookups = <<>> /\ hio_result = NoResult
    /\ hio_pc = "returned" =>
          /\ Len(hio_lookups) = 1
          /\ hio_lookups[1].type = "list"
          /\ [i \in 1..Len(hio_lookups[1].items) |-> hio_lookups[1].items[i].s]
                = StartUidsYielded
          /\ hio_result.status = "ok"
          /\ Len(hio_result.value) = Len(StartUidsYielded)
          /\ \A i \in 1..Len(StartUidsYielded) :
                /\ hio_result.value[i].start.uid = StartUidsYielded[i]
                /\ \E j \in 1..Len(hio_dst) :
                      hio_result.value[i] = HeaderFromRunStart(hio_dst[j])
    /\ hio_pc = "raised" =>
          /\ hio_result.status = "raise"
          /\ hio_result = OperatorError => hio_lookups = <<>>
          /\ hio_result # OperatorError =>
                /\ Len(hio_lookups) = 1
                /\ \E i \in 1..Len(StartUidsYielded) : ~InDestination(StartUidsYielded[i])

\* two Starts were emitted among other documents and both were resolved, in
\* the order emitted
C16_Witness ==
    /\ hio_pc = "returned"
    /\ Len(hio_yielded) = 4
    /\ Len(output_uids) = 2
    /\ output_uids[1] # output_uids[2]
    /\ Len(hio_result.value) = 2
    /\ hio_result.value[1].start.uid = output_uids[1]

\* the operator raised after a Start was emitted: nothing was looked up
C16_WitnessRaised ==
    /\ hio_pc = "raised"
    /\ hio_result = OperatorError
    /\ Len(output_uids) = 1
    /\ hio_lookups = <<>>

\* ---------------------------------------------------- search: properties
\* a lookup step: the store is as it was and s_key', s_result' are its key
\* and its outcome
Lookup == mds_runs' = mds_runs /\ s_key' # NoKey
IsInt(key) == key.type = "int"
IsSlice(key) == key.type = "slice"
\* the positions in the store, oldest first, of the runs with scan id n
WithScanId(n) == {i \in 1..Len(mds_runs) : mds_runs[i].scan_id = n}
Max(S) == CHOOSE i \in S : \A j \in S : j <= i
Min2(a, b) == IF a < b THEN a ELSE b

\* C17: resolve(n), n >= 0, returns the Header of the most recently created
\* run whose scan id is n when there is one, and otherwise fails with a
\* not-found error and returns no Header
C17_ScanIdMostRecent ==
    [][(Lookup /\ IsInt(s_key') /\ s_key'.n >= 0) =>
        IF WithScanId(s_key'.n) # {}
        THEN /\ s_result'.status = "ok"
             /\ s_result'.value = HeaderFromRunStart(mds_runs[Max(WithScanId(s_key'.n))])
        ELSE /\ s_result'.status = "raise"
             /\ s_result'.exc = "ValueError"
             /\ s_result'.about = "No such run"]_vars

\* two runs share the scan id looked up and the later one is returned
C17_Witness ==
    /\ IsInt(s_key) /\ s_key.n = 1
    /\ Len(mds_runs) = 2
    /\ mds_runs[1].scan_id = 1 /\ mds_runs[2].scan_id = 1
    /\ s_result.status = "ok"
    /\ s_result.value = HeaderFromRunStart(mds_runs[2])

\* C18: resolve(n), n < 0, on a store of N runs returns the Header of the
\* |n|-th most recently created run when N >= |n| and otherwise fails with
\* an out-of-range error whose count is N
C18_NthMostRecent ==
    [][(Lookup /\ IsInt(s_key') /\ s_key'.n < 0) =>
        LET N == Len(mds_runs) IN
        IF N >= 0 - s_key'.n
        THEN /\ s_result'.status = "ok"
             /\ s_result'.value = HeaderFromRunStart(mds_runs[N + 1 + s_key'.n])
        ELSE /\ s_result'.status = "raise"
             /\ s_result'.exc = "IndexError"
             /\ s_result'.count = Some(N)]_vars

\* the third most recent run was asked of a store of two
C18_Witness ==
    /\ IsInt(s_key) /\ s_key.n = 0 - 3
    /\ Len(mds_runs) = 2
    /\ s_result.status = "raise" /\ s_result.exc = "IndexError"
    /\ s_result.count = Some(2)

C18_WitnessFound ==
    /\ IsInt(s_key) /\ s_key.n = 0 - 2
    /\ Len(mds_runs) = 3
    /\ s_result.status = "ok"
    /\ s_result.value = HeaderFromRunStart(mds_runs[2])

StartMissing(key) == key.start = NoneInt
StartNotNegative(key) == key.start # NoneInt /\ key.start[1] >= 0
StopPositive(key) == key.stop # NoneInt /\ key.stop[1] > 0
ValidRange(key) ==
    /\ key.start # NoneInt /\ key.start[1] < 0
    /\ key.stop = NoneInt \/ key.stop[1] <= 0
    /\ key.step # Some(0)
ValidationError(r) == r.status = "raise" /\ r.exc = "ValueError"

\* C19 as stated: a range key fails with a validation error when start is
\* None, when start >= 0 (the error names start) and when stop > 0 (the
\* error names stop); it succeeds when start < 0, stop is None or <= 0 and
\* step is absent or not zero
C19_RangeValidationAsStated ==
    [][(Lookup /\ IsSlice(s_key')) =>
        /\ StartMissing(s_key') => ValidationError(s_result')
        /\ StartNotNegative(s_key') =>
              ValidationError(s_result') /\ s_result'.about = "slice.start"
        /\ StopPositive(s_key') =>
              ValidationError(s_result') /\ s_result'.about = "slice.stop"
        /\ ValidRange(s_key') => s_result'.status = "ok"]_vars

\* C19: a range key fails with a validation error when start is None, when
\* start >= 0 (the error names start) and when stop > 0 (the error names
\* stop unless start >= 0, which is reported first); it succeeds when
\* start < 0, stop is None or <= 0 and step is absent or not zero
C19_RangeValidation ==
    [][(Lookup /\ IsSlice(s_key')) =>
        /\ StartMissing(s_key') => ValidationError(s_result')
        /\ StartNotNegative(s_key') =>
              ValidationError(s_result') /\ s_result'.about = "slice.start"
        /\ StopPositive(s_key') =>
              /\ ValidationError(s_result')
              /\ ~StartNotNegative(s_key') => s_result'.about = "slice.stop"
        /\ ValidRange(s_key') => s_result'.status = "ok"]_vars

\* a positive stop with a negative start is refused, the error naming stop
C19_Witness ==
    /\ IsSlice(s_key)
    /\ s_key.start = Some(0 - 2) /\ s_key.stop = Some(1)
    /\ ValidationError(s_result) /\ s_result.about = "slice.stop"

\* start and stop both offend and the error names start
C19_WitnessBoth ==
    /\ IsSlice(s_key)
    /\ StartNotNegative(s_key) /\ StopPositive(s_key)
    /\ ValidationError(s_result) /\ s_result.about = "slice.start"

IsLastK(key) ==
    /\ IsSlice(key)
    /\ key.start # NoneInt /\ key.start[1] <= 0 - 1
    /\ key.stop = Some(0)
    /\ key.step = NoneInt

\* C20 as stated: resolve(range(start=-k, stop=0)) returns exactly k Headers
\* whatever the store holds
C20_ExactlyKAsStated ==
    [][(Lookup /\ IsLastK(s_key')) =>
        /\ s_result'.status = "ok"
        /\ Len(s_result'.value) = 0 - s_key'.start[1]]_vars

\* C20: resolve(range(start=-k, stop=0)) on a store of N runs returns the
\* Headers of the min(k, N) most recent runs, most recent first: exactly k
\* only when the store holds at least k runs
C20_LastK ==
    [][(Lookup /\ IsLastK(s_key')) =>
        LET N == Len(mds_runs)
            k == 0 - s_key'.start[1]
        IN  /\ s_result'.status = "ok"
            /\ Len(s_result'.value) = Min2(k, N)
            /\ \A i \in 1..Min2(k, N) :
                  s_result'.value[i] = HeaderFromRunStart(mds_runs[N + 1 - i])]_vars

\* two runs were asked of a store of three, and three of a store of one
C20_Witness ==
    /\ IsLastK(s_key) /\ s_key.start = Some(0 - 2)
    /\ Len(mds_runs) = 3
    /\ s_result.status = "ok"
    /\ s_result.value = <<HeaderFromRunStart(mds_runs[3]), HeaderFromRunStart(mds_runs[2])>>

C20_WitnessShort ==
    /\ IsLastK(s_key) /\ s_key.start = Some(0 - 3)
    /\ Len(mds_runs) = 1
    /\ s_result.status = "ok"
    /\ Len(s_result.value) = 1

Abs(n) == IF n < 0 THEN 0 - n ELSE n
\* the run of recency rank r, 1 being the most recent
RunOfRank(r) == mds_runs[Len(mds_runs) + 1 - r]
StopBack(key) == IF key.stop = NoneInt THEN 0 ELSE Abs(key.stop[1])

\* C21: for a valid range key every Header returned is a run whose recency
\* rank r satisfies |stop| < r <= |start|, whatever the sign of the step;
\* with step absent or 1 the result is all such runs, most recent first
C21_RangeWindow ==
    [][(Lookup /\ IsSlice(s_key') /\ ValidRange(s_key')) =>
        LET lo == StopBack(s_key')
            hi == Min2(Abs(s_key'.start[1]), Len(mds_runs))
        IN  /\ s_result'.status = "ok"
            /\ \A i \in 1..Len(s_result'.value) :
                  \E r \in (lo + 1)..hi :
                      s_result'.value[i] = HeaderFromRunStart(RunOfRank(r))
            /\ s_key'.step \in {NoneInt, Some(1)} =>
                  s_result'.value =
                      [i \in 1..(IF hi > lo THEN hi - lo ELSE 0) |->
                          HeaderFromRunStart(RunOfRank(lo + i))]]_vars

IsStr(key) == key.type = "str"
IsCollection(key) == key.type \in {"set", "tuple", "list"}
IsPrefix(key, str) ==
    /\ Len(key) <= Len(str)
    /\ \A j \in 1..Len(key) : str[j] = key[j]
\* the positions in the store of the runs whose uid the key is, or starts
PrefixMatches(key) == {i \in 1..Len(mds_runs) : IsPrefix(key, mds_runs[i].uid)}
ExactMatches(key) == {i \in 1..Len(mds_runs) : mds_runs[i].uid = key}

\* C22: a string key resolves to the Header of run R only if the key is R's
\* uid or a prefix of it (leading characters, not an interior substring) and
\* R is the only such run; a key of length 36 equal to a uid is resolved by
\* the exact query alone, and the prefix query is sent only when the exact
\* one found nothing or the length is not 36
C22_StringPrefixMatch ==
    [][(Lookup /\ IsStr(s_key')) =>
        LET key == s_key'.s IN
        /\ s_result'.status = "ok" =>
              \E i \in PrefixMatches(key) :
                  /\ s_result'.value = HeaderFromRunStart(mds_runs[i])
                  /\ PrefixMatches(key) = {i}
        /\ (Len(key) = UidLen /\ ExactMatches(key) # {}) =>
              s_result'.queries = <<QUid(key)>>
        /\ (\E q \in 1..Len(s_result'.queries) : s_result'.queries[q] = QRegex(key)) =>
              (Len(key) # UidLen \/ ExactMatches(key) = {})]_vars

\* C23: a string key that matches no run, or two or more, fails with a
\* validation error that states the number of matching runs
C23_StringMatchCount ==
    [][(Lookup /\ IsStr(s_key')) =>
        LET n == Cardinality(PrefixMatches(s_key'.s)) IN
        (n = 0 \/ n >= 2) =>
            /\ ValidationError(s_result')
            /\ s_result'.count = Some(n)]_vars

\* C24: a collection key resolves to a sequence as long as the key whose
\* i-th element is what resolve gives for the key's i-th element, nested
\* collections included; it fails as a whole with the failure of the first
\* element that fails, no later element being looked up
C24_CollectionElementwise ==
    [][(Lookup /\ IsCollection(s_key')) =>
        LET items == s_key'.items
            each == [i \in 1..Len(items) |-> search(items[i], mds_runs)]
            failed == {i \in 1..Len(items) : each[i].status = "raise"}
        IN  IF failed = {}
            THEN /\ s_result'.status = "ok"
                 /\ Len(s_result'.value) = Len(items)
                 /\ \A i \in 1..Len(items) : s_result'.value[i] = each[i].value
            ELSE LET first == CHOOSE i \in failed : \A j \in failed : i <= j
                     RECURSIVE Sent(_)
                     Sent(i) == IF i = 0 THEN <<>> ELSE Sent(i - 1) \o each[i].queries
                 IN  /\ s_result'.status = "raise"
                     /\ s_result'.exc = each[first].exc
                     /\ s_result'.about = each[first].about
                     /\ s_result'.count = each[first].count
                     /\ s_result'.queries = Sent(first)]_vars

\* a list holding a list was resolved, element by element
C24_Witness ==
    /\ s_key = ListKey(<<IntKey(0 - 1), ListKey(<<IntKey(0 - 2), IntKey(2)>>)>>)
    /\ s_result.status = "ok"
    /\ Len(s_result.value) = 2
    /\ Len(s_result.value[2]) = 2
    /\ Len(mds_runs) = 2
    /\ s_result.value[1] = HeaderFromRunStart(mds_runs[2])

\* the second of three elements failed and the third was not looked up
C24_WitnessFailed ==
    /\ s_key = ListKey(<<IntKey(0 - 1), OtherKey("float"), IntKey(0 - 3)>>)
    /\ s_result.status = "raise"
    /\ s_result.queries = <<QLast(1)>>

\* C25: a key that is not an integer, a range, a string, a set, a tuple or a
\* mutable sequence fails with a validation error and the metadata store is
\* never queried
C25_UnsupportedKey ==
    [][(Lookup /\ ~IsInt(s_key') /\ ~IsSlice(s_key') /\ ~IsStr(s_key')
               /\ ~IsCollection(s_key')) =>
        /\ ValidationError(s_result')
        /\ s_result'.queries = <<>>]_vars

\* a float and a dict were refused
C25_Witness ==
    /\ s_key \in {OtherKey("float"), OtherKey("dict")}
    /\ Len(mds_runs) > 0
    /\ ValidationError(s_result)
    /\ s_result.queries = <<>>

\* C26: during export every Event is inserted into the destination metadata
\* store only after the Descriptor it references has been inserted there,
\* however many Descriptors the run has
C26_EventAfterItsDescriptor ==
    \A j \in 1..Len(ex_calls) :
        ex_calls[j].call = "insert_event" =>
            \E i \in 1..(j - 1) :
                /\ ex_calls[i].call = "insert_descriptor"
                /\ ex_calls[i].h = ex_calls[j].h
                /\ ex_calls[i].doc.uid = ex_calls[j].doc.descriptor

\* --------------------------------------- event_map: output as a whole
\* a document of the given kind and uid was emitted before position i
EmittedBefore(i, name, uid) ==
    \E j \in 1..(i - 1) : em_out[j].name = name /\ em_out[j].doc.uid = uid

\* C27: the output of event_map keeps referential order on any input: an
\* emitted Descriptor's run_start and an emitted Stop's run_start are the uid
\* of a Start emitted earlier, an emitted Event's descriptor is the uid of a
\* Descriptor emitted earlier, and the uids the operator assigns are pairwise
\* distinct and differ from the uids of the source documents
C27_ReferentialOrder ==
    /\ \A i \in DOMAIN em_out :
          /\ em_out[i].name \in {"descriptor", "stop"} =>
                EmittedBefore(i, "start", em_out[i].doc.run_start)
          /\ em_out[i].name = "event" =>
                EmittedBefore(i, "descriptor", doc_or_uid_to_uid(em_out[i].doc.descriptor))
          /\ em_out[i].doc.uid \notin SourceUids
    /\ \A i, j \in DOMAIN em_out : i # j => em_out[i].doc.uid # em_out[j].doc.uid

\* a whole derived run was emitted, and the Start of a second one
C27_Witness ==
    /\ Len(em_out) = 5
    /\ em_out[1].name = "start"
    /\ em_out[2].name = "descriptor"
    /\ em_out[3].name = "event"
    /\ em_out[4].name = "stop"
    /\ em_out[5].name = "start"

\* the uid of the derived Start that emitted document i belongs to: its
\* run_start, or for an Event that of the Descriptor it references
RunOf(i) ==
    IF em_out[i].name = "start" THEN em_out[i].doc.uid
    ELSE IF em_out[i].name \in {"descriptor", "stop"} THEN em_out[i].doc.run_start
    ELSE LET d == CHOOSE j \in 1..(i - 1) :
                     /\ em_out[j].name = "descriptor"
                     /\ em_out[j].doc.uid = doc_or_uid_to_uid(em_out[i].doc.descriptor)
         IN  em_out[d].doc.run_start

\* C28: on any input event_map never emits two Stops with the same
\* run_start: a derived run receives at most one Stop, success or failure,
\* and no document emitted after a Stop belongs to the run that Stop closed
C28_AtMostOneStopPerRun ==
    \A i \in DOMAIN em_out :
        em_out[i].name = "stop" =>
            \A j \in (i + 1)..Len(em_out) : RunOf(j) # em_out[i].doc.run_start

\* two derived runs were closed, the second one by a failure Stop
C28_Witness ==
    /\ Len(em_out) = 5
    /\ em_out[2].name = "stop" /\ em_out[2].doc.exit_status = "success"
    /\ em_out[5].name = "stop" /\ em_out[5].doc.exit_status = "failure"
    /\ em_pc = "raised"

\* a Stop was pulled after the Stop that closed the run: nothing was emitted
C28_WitnessRepeatedStop ==
    /\ Len(em_in) = 3
    /\ em_in[2].name = "stop" /\ em_in[3].name = "stop"
    /\ Len(em_out) = 2
    /\ em_pc = "raised"

\* ---------------------------------------- store_dec: documents handed over
Kinds(docs) == [i \in DOMAIN docs |-> docs[i].name]
\* the documents pulled that were processed to the end of the loop body
SdHandled == IF sd_pc = "raised" THEN SubSeq(sd_in, 1, Len(sd_in) - 1) ELSE sd_in

\* C29: store_dec emits one document per input document, of the same kind
\* and in the same order, each inserted into the metadata store before it is
\* yielded: the kinds inserted are the kinds emitted (at most one document
\* ahead), and no inserted copy contains 'filled' or '_name'
C29_OneInsertOneYield ==
    /\ Kinds(sd_out) = Kinds(SdHandled)
    /\ \A i \in DOMAIN sd_out : sd_out[i].doc.uid = sd_in[i].doc.uid
    /\ Len(sd_inserted) \in {Len(sd_out), Len(sd_out) + 1}
    /\ \A i \in DOMAIN sd_out :
          /\ sd_inserted[i].name = sd_out[i].name
          /\ sd_inserted[i].doc.uid = sd_out[i].doc.uid
    /\ \A i \in DOMAIN sd_inserted :
          {"filled", "_name"} \cap DOMAIN sd_inserted[i].doc = {}

\* a run whose event came with 'filled' and '_name' was handed over whole
C29_Witness ==
    /\ Kinds(sd_out) = <<"start", "descriptor", "event", "stop">>
    /\ "_name" \in DOMAIN sd_in[3].doc
    /\ "_name" \notin DOMAIN sd_inserted[3].doc
    /\ Len(sd_inserted) = 4

DatumIds == {DatumPool[i] : i \in DOMAIN DatumPool}

\* C30: the 'filled' mapping of an emitted Event has an entry, with value
\* false, for a field only if the field is configured, is in the event's
\* data, and was written by a writer for that event (its persisted value is
\* a reference id)
C30_FilledOnlyForWrittenFields ==
    \A i \in DOMAIN sd_out :
        (sd_out[i].name = "event" /\ "filled" \in DOMAIN sd_out[i].doc) =>
            \A k \in DOMAIN sd_out[i].doc.filled :
                /\ sd_out[i].doc.filled[k] = FALSE
                /\ k \in external_writers
                /\ k \in DOMAIN sd_in[i].doc.data
                /\ sd_inserted[i].doc.data[k] \in DatumIds

\* C31: event_map produces at most one output document for each input
\* document it pulls and buffers none: a step pulls at most one document and
\* emits at most one, an emitted document is the output for the document
\* pulled in that step, and the next input is pulled only once that output
\* has been handed over
C31_OneOutputPerPull ==
    [][/\ Len(em_in') \in {Len(em_in), Len(em_in) + 1}
       /\ SubSeq(em_in', 1, Len(em_in)) = em_in
       /\ Len(em_out') \in {Len(em_out), Len(em_out) + 1}
       /\ SubSeq(em_out', 1, Len(em_out)) = em_out
       /\ Len(em_out') > Len(em_out) => Len(em_in') = Len(em_in) + 1
       /\ Len(em_out') <= Len(em_in')]_vars

\* four documents were pulled: three were answered by one document each and
\* one was dropped
C31_Witness ==
    /\ Len(em_in) = 4
    /\ Len(em_out) = 3
    /\ em_pc = "ready"
    /\ \E i \in 1..4 : em_in[i].name = "descriptor" /\ em_in[i].doc.name # stream_name

====
